---- MODULE Spec2Model ----
(***************************************************************************)
(* Patient-Referral-System backend: the approval workflow of Accounts and  *)
(* Hospitals and the Referral handlers, as a state machine over the        *)
(* document store (users, hospitals, clinics, referrals).                  *)
(*                                                                         *)
(* Every action is one HTTP request: the route's middleware chain followed *)
(* by the controller.  The variable res holds the response of the last     *)
(* request together with the request's actor and target.  A handler that   *)
(* awaits the store twice can also run as two steps; inFlight holds the     *)
(* requests that have read and not yet written.                            *)
(***************************************************************************)
EXTENDS Integers, Sequences, FiniteSets, TLC

VARIABLES users, hospitals, clinics, referrals, res, inFlight

vars == <<users, hospitals, clinics, referrals, res, inFlight>>

----------------------------------------------------------------------------
(* Bounds *)

\* the referral store holds at most MaxReferrals documents
MaxReferrals == 1

\* a referral's timeline holds at most MaxTimeline entries
MaxTimeline == 2

----------------------------------------------------------------------------
(* Vocabulary *)

\* null / undefined of the source
Null == "null"

\* a Date written by new Date(): the model keeps whether a date is set, not
\* its value
Now == "date"

\* an absent or empty string field
NoText == <<>>

\* an empty string sent in a request body
Empty == ""

\* a request made without a token
Anonymous == "anonymous"

UserIds == {"sa", "a1", "a2", "a3", "d1", "d2", "d3", "d4", "p1", "p2"}
HospitalIds == {"h1", "h2"}
ClinicIds == {"c3"}
\* _id of the k-th referral document
ReferralName == <<"r1", "r2", "r3", "r4">>
ReferralIds == {ReferralName[k] : k \in 1..MaxReferrals}

\* Hospital.email of the hospital stored under id h; a2 is the Account that
\* carries the e-mail of h2, a1 the one that carries the e-mail of h1
HospitalEmail(h) == IF h = "h1" THEN "a1@x" ELSE "a2@x"

\* User.email of the Account stored under id u (unique index)
UserEmail(u) == IF u = "a1" THEN "a1@x" ELSE IF u = "a2" THEN "a2@x" ELSE u

NoUser ==
    [exists |-> FALSE, role |-> Null, email |-> Null, approvalStatus |-> Null,
     approvedBy |-> Null, approvedAt |-> Null, rejectionReason |-> Null,
     isActive |-> FALSE, practiceType |-> Null, hospitalId |-> Null,
     clinicId |-> Null, createdAt |-> 0, passwordResetToken |-> Null]

NoHospital ==
    [exists |-> FALSE, email |-> Null, status |-> Null, approvedBy |-> Null,
     approvedAt |-> Null, rejectionReason |-> Null]

NoClinic == [exists |-> FALSE, ownerId |-> Null]

NoReferral ==
    [exists |-> FALSE, referralId |-> NoText, patient |-> Null,
     referringDoctor |-> Null, referringHospital |-> Null,
     receivingDoctor |-> Null, receivingHospital |-> Null, reason |-> NoText,
     priority |-> Null, specialty |-> NoText, chiefComplaint |-> NoText,
     status |-> Null, timeline |-> <<>>]

NoResponse ==
    [op |-> "none", actor |-> Null, target |-> Null, code |-> 0,
     msg |-> Null, data |-> {}, mail |-> {}, logged |-> {}]

\* the two requests that may be in flight at the same time
CallIds == {"call1", "call2"}

\* pc: idle (not sent), save (the handler has read the Referral and awaits
\* referral.save()), done (answered with code); read: the document that
\* findById returned
NoCall ==
    [pc |-> "idle", actor |-> Null, id |-> Null, status |-> Null,
     notes |-> NoText, read |-> NoReferral, code |-> 0]

Answer(op, actor, target, code, msg, data, mail) ==
    res' = [op |-> op, actor |-> actor, target |-> target, code |-> code,
            msg |-> msg, data |-> data, mail |-> mail, logged |-> {}]

\* the response of a handler that runs as one step
Respond(op, actor, target, code, msg, data, mail) ==
    /\ Answer(op, actor, target, code, msg, data, mail)
    /\ UNCHANGED inFlight

----------------------------------------------------------------------------
(* Document store queries *)

\* User.findOne({ email })
UserByEmail(email) == {u \in UserIds : users[u].exists /\ users[u].email = email}

\* timestamps: true -- createdAt of a new document is later than that of
\* every stored one
NextCreatedAt ==
    LET stamps == {users[u].createdAt : u \in UserIds} IN
    1 + CHOOSE m \in stamps : \A n \in stamps : n <= m

\* Hospital.findOne({ email })
HospitalByEmail(email) ==
    {h \in HospitalIds : hospitals[h].exists /\ hospitals[h].email = email}

----------------------------------------------------------------------------
(* Middleware *)

\* protect: the token resolves to an existing, active user
protect(actor) == actor \in UserIds /\ users[actor].exists /\ users[actor].isActive

\* authorize(...roles)
authorize(actor, roles) == users[actor].role \in roles

\* checkApprovalStatus: TRUE when next() is called
checkApprovalStatus(actor) ==
    LET user == users[actor] IN
    IF user.role = "super_admin" THEN TRUE
    ELSE IF user.role = "hospital" /\ user.approvalStatus # "approved" THEN FALSE
    ELSE IF user.role = "doctor" /\ user.approvalStatus # "approved" THEN FALSE
    ELSE IF user.role = "doctor" /\ user.practiceType = "hospital"
            /\ user.hospitalId # Null
         THEN hospitals[user.hospitalId].exists
              /\ hospitals[user.hospitalId].status = "approved"
    ELSE TRUE

\* protectWithApproval: protect, then checkApprovalStatus
protectWithApproval(actor) == protect(actor) /\ checkApprovalStatus(actor)

----------------------------------------------------------------------------
(* Model methods *)

\* userSchema.methods.approve
UserApprove(user, approvedBy) ==
    [user EXCEPT !.approvalStatus = "approved", !.approvedBy = approvedBy,
                 !.approvedAt = Now]

\* userSchema.methods.reject
UserReject(user, rejectionReason, rejectedBy) ==
    [user EXCEPT !.approvalStatus = "rejected",
                 !.rejectionReason = rejectionReason,
                 !.approvedBy = rejectedBy, !.approvedAt = Now]

\* hospitalSchema.methods.approve
HospitalApprove(hospital, approvedBy) ==
    [hospital EXCEPT !.status = "approved", !.approvedBy = approvedBy,
                     !.approvedAt = Now]

\* hospitalSchema.methods.reject
HospitalReject(hospital, rejectionReason, rejectedBy) ==
    [hospital EXCEPT !.status = "rejected",
                     !.rejectionReason = rejectionReason,
                     !.approvedBy = rejectedBy, !.approvedAt = Now]

----------------------------------------------------------------------------
(* Initial state: the store holds one seeded super admin *)

SeedAdmin ==
    [NoUser EXCEPT !.exists = TRUE, !.role = "super_admin", !.email = "sa",
                   !.approvalStatus = "approved", !.isActive = TRUE,
                   !.createdAt = 1]

Init ==
    /\ users = [u \in UserIds |-> IF u = "sa" THEN SeedAdmin ELSE NoUser]
    /\ hospitals = [h \in HospitalIds |-> NoHospital]
    /\ clinics = [c \in ClinicIds |-> NoClinic]
    /\ referrals = [r \in ReferralIds |-> NoReferral]
    /\ res = NoResponse
    /\ inFlight = [k \in CallIds |-> NoCall]


----------------------------------------------------------------------------
(* Account and Hospital creation *)

\* The registration bodies of the accounts of this model: the role and the
\* role-specific fields each Account id is registered with.
RegisterBody(u) ==
    IF u \in {"a1", "a2", "a3"}
    THEN [role |-> "hospital", practiceType |-> Null,
          hospitalId |-> IF u = "a1" THEN "h1" ELSE "h2"]
    ELSE IF u \in {"d1", "d4"} THEN [role |-> "doctor", practiceType |-> "hospital",
                           hospitalId |-> "h1"]
    ELSE IF u = "d2" THEN [role |-> "doctor", practiceType |-> "hospital",
                           hospitalId |-> "h2"]
    ELSE IF u = "d3" THEN [role |-> "doctor", practiceType |-> "own_clinic",
                           hospitalId |-> Null]
    ELSE [role |-> "patient", practiceType |-> Null, hospitalId |-> Null]

\* approval status a new Account of the given role starts with
InitialApprovalStatus(role) ==
    IF role \in {"hospital", "doctor"} THEN "pending" ELSE "approved"

\* POST /api/auth/register (public).  clinicOk: Clinic.create succeeds.
register(u, clinicOk) ==
    LET body == RegisterBody(u)
        \* hospitalId is copied only for a doctor with practiceType hospital
        user == [NoUser EXCEPT
                   !.exists = TRUE, !.role = body.role, !.email = UserEmail(u),
                   !.isActive = TRUE, !.createdAt = NextCreatedAt,
                   !.approvalStatus = InitialApprovalStatus(body.role),
                   !.practiceType =
                       IF body.role = "doctor" THEN body.practiceType ELSE Null,
                   !.hospitalId =
                       IF body.role = "doctor" /\ body.practiceType = "hospital"
                       THEN body.hospitalId ELSE Null]
        ownClinic == body.role = "doctor" /\ body.practiceType = "own_clinic"
    IN
    /\ UNCHANGED <<hospitals, referrals>>
    /\ IF UserByEmail(UserEmail(u)) # {}
       THEN /\ Respond("register", Anonymous, u, 400, "exists", {}, {})
            /\ UNCHANGED <<users, clinics>>
       ELSE IF ownClinic /\ ~clinicOk
       THEN \* the Account was created and is deleted again
            /\ Respond("register", Anonymous, u, 500, "clinic", {}, {})
            /\ UNCHANGED <<users, clinics>>
       ELSE IF ownClinic
       THEN /\ clinics' = [clinics EXCEPT !["c3"] =
                              [exists |-> TRUE, ownerId |-> u]]
            /\ users' = [users EXCEPT ![u] = [user EXCEPT !.clinicId = "c3"]]
            /\ Respond("register", Anonymous, u, 201, Null, {}, {UserEmail(u)})
       ELSE /\ users' = [users EXCEPT ![u] = user]
            /\ UNCHANGED clinics
            /\ Respond("register", Anonymous, u, 201, Null, {}, {UserEmail(u)})

\* POST /api/auth/forgot-password (public)
\* email: the body's email, Null when absent; resetToken: the value of
\* crypto.randomBytes(20).toString('hex'); delivered: sendEmail did not throw
forgotPassword(email, resetToken, delivered) ==
    LET found == UserByEmail(email) IN
    /\ UNCHANGED <<hospitals, clinics, referrals>>
    /\ IF email = Null
       THEN /\ Respond("forgotPassword", Anonymous, email, 400, "email_required",
                       {}, {})
            /\ UNCHANGED users
       ELSE IF found = {}
       THEN /\ Respond("forgotPassword", Anonymous, email, 200,
                       "If a user with that email exists, a password reset link has been sent",
                       {}, {})
            /\ UNCHANGED users
       ELSE IF delivered
       THEN /\ users' = [u \in UserIds |->
                           IF u \in found
                           THEN [users[u] EXCEPT !.passwordResetToken = resetToken]
                           ELSE users[u]]
            /\ Respond("forgotPassword", Anonymous, email, 200,
                       "Password reset email sent", {}, {email})
       ELSE \* the token is saved, sendEmail throws, the token is removed
            /\ users' = [u \in UserIds |->
                           IF u \in found
                           THEN [users[u] EXCEPT !.passwordResetToken = Null]
                           ELSE users[u]]
            /\ Respond("forgotPassword", Anonymous, email, 500,
                       "Email could not be sent", {}, {email})

\* POST /api/doctors   protect, authorize('super_admin', 'hospital')
\* The body is RegisterBody(u); clinicOk: clinic.save() succeeds (it fails
\* when the body lacks a field the Clinic schema requires).
createDoctor(actor, u, clinicOk) ==
    LET user == users[actor]
        body == RegisterBody(u)
        finalHospitalId == IF user.role = "hospital" /\ user.hospitalId # Null
                           THEN user.hospitalId ELSE body.hospitalId
        doctor == [NoUser EXCEPT
                     !.exists = TRUE, !.role = "doctor", !.email = UserEmail(u),
                     !.isActive = TRUE, !.createdAt = NextCreatedAt,
                     !.approvalStatus = "pending",
                     !.practiceType = body.practiceType,
                     !.hospitalId = IF body.practiceType = "hospital"
                                    THEN finalHospitalId ELSE Null]
    IN
    /\ UNCHANGED <<hospitals, referrals>>
    /\ IF ~protect(actor)
       THEN /\ Respond("createDoctor", actor, u, 401, "auth", {}, {})
            /\ UNCHANGED <<users, clinics>>
       ELSE IF ~authorize(actor, {"super_admin", "hospital"})
       THEN /\ Respond("createDoctor", actor, u, 403, "role", {}, {})
            /\ UNCHANGED <<users, clinics>>
       ELSE IF UserByEmail(UserEmail(u)) # {}
       THEN /\ Respond("createDoctor", actor, u, 400, "exists", {}, {})
            /\ UNCHANGED <<users, clinics>>
       ELSE IF body.practiceType \notin {"own_clinic", "hospital"}
       THEN /\ Respond("createDoctor", actor, u, 400, "practice_type", {}, {})
            /\ UNCHANGED <<users, clinics>>
       ELSE IF body.practiceType = "hospital" /\ finalHospitalId = Null
       THEN /\ Respond("createDoctor", actor, u, 400, "hospital_required", {}, {})
            /\ UNCHANGED <<users, clinics>>
       ELSE IF body.practiceType = "own_clinic" /\ ~clinicOk
       THEN \* doctor.save() succeeded, clinic.save() throws: the catch
            \* block answers 500
            /\ users' = [users EXCEPT ![u] = doctor]
            /\ UNCHANGED clinics
            /\ Respond("createDoctor", actor, u, 500, "error", {}, {})
       ELSE IF body.practiceType = "own_clinic"
       THEN /\ clinics' = [clinics EXCEPT !["c3"] =
                              [exists |-> TRUE, ownerId |-> u]]
            /\ users' = [users EXCEPT ![u] = [doctor EXCEPT !.clinicId = "c3"]]
            /\ Respond("createDoctor", actor, u, 201, Null, {}, {})
       ELSE /\ users' = [users EXCEPT ![u] = doctor]
            /\ UNCHANGED clinics
            /\ Respond("createDoctor", actor, u, 201, Null, {}, {})

\* POST /api/hospitals (optionalAuth; public registration or super admin).
\* status: the body's status (Null when absent); withAdmin: firstName,
\* lastName and password are supplied.
createHospital(actor, h, status, withAdmin) ==
    LET authed == protect(actor)
        isSuperAdmin == authed /\ users[actor].role = "super_admin"
        newStatus == IF isSuperAdmin /\ status # Null THEN status ELSE "pending"
        admin == IF h = "h1" THEN "a1" ELSE "a2"
        hospital == [NoHospital EXCEPT !.exists = TRUE,
                                       !.email = HospitalEmail(h),
                                       !.status = newStatus]
        hospitalUser ==
            [NoUser EXCEPT
               !.exists = TRUE, !.role = "hospital", !.email = HospitalEmail(h),
               !.isActive = TRUE, !.hospitalId = h, !.createdAt = NextCreatedAt,
               !.approvalStatus =
                   IF newStatus = "approved" THEN "approved" ELSE "pending"]
        who == IF authed THEN actor ELSE Anonymous
    IN
    /\ UNCHANGED <<clinics, referrals>>
    /\ IF authed /\ users[actor].role # "super_admin"
       THEN /\ Respond("createHospital", who, h, 403, "role", {}, {})
            /\ UNCHANGED <<users, hospitals>>
       ELSE IF HospitalByEmail(HospitalEmail(h)) # {}
       THEN /\ Respond("createHospital", who, h, 400, "exists", {}, {})
            /\ UNCHANGED <<users, hospitals>>
       ELSE IF withAdmin /\ UserByEmail(HospitalEmail(h)) # {}
       THEN \* hospital.save() succeeded, hospitalUser.save() hits the
            \* unique e-mail index
            /\ hospitals' = [hospitals EXCEPT ![h] = hospital]
            /\ UNCHANGED users
            /\ Respond("createHospital", who, h, 500, "duplicate", {}, {})
       ELSE /\ hospitals' = [hospitals EXCEPT ![h] = hospital]
            /\ users' = IF withAdmin
                        THEN [users EXCEPT ![admin] = hospitalUser]
                        ELSE users
            /\ Respond("createHospital", who, h, 201, Null, {}, {})

----------------------------------------------------------------------------
(* Approval controller (routes: /api/approval) *)

\* the failure of sendEmail reaches the handler's outer catch
afterNotificationPropagating(delivered) == IF delivered THEN 200 ELSE 500

\* the status code of a handler that has written its transition and has
\* called sendEmail inside try/catch; delivered: sendEmail did not throw
afterNotification(delivered) == 200

\* the answer of such a handler: mail holds the address sendEmail was called
\* with, logged what the catch block wrote with console.error
Notified(op, actor, target, to, delivered) ==
    /\ res' = [op |-> op, actor |-> actor, target |-> target,
               code |-> afterNotification(delivered), msg |-> Null, data |-> {},
               mail |-> {to},
               logged |-> IF delivered THEN {} ELSE {"Email sending failed"}]
    /\ UNCHANGED inFlight

\* a re-approval is refused for every status but pending
notPendingOnlyApproved(status) == status = "approved"

\* user.approvalStatus !== 'pending' / hospital.status !== 'pending'
notPending(status) == status # "pending"

\* POST /approve-user/:userId   protect, authorize('super_admin', 'hospital')
approveUser(actor, userId) ==
    LET user == users[userId]
        \* cascade: Hospital.findOne({ email: user.email }) in state pending
        cascade == IF user.role = "hospital"
                   THEN {h \in HospitalByEmail(user.email) :
                            hospitals[h].status = "pending"}
                   ELSE {}
    IN
    /\ UNCHANGED <<clinics, referrals>>
    /\ IF ~protect(actor)
       THEN /\ Respond("approveUser", actor, userId, 401, "auth", {}, {})
            /\ UNCHANGED <<users, hospitals>>
       ELSE IF ~authorize(actor, {"super_admin", "hospital"})
       THEN /\ Respond("approveUser", actor, userId, 403, "role", {}, {})
            /\ UNCHANGED <<users, hospitals>>
       ELSE IF ~user.exists
       THEN /\ Respond("approveUser", actor, userId, 404, "not_found", {}, {})
            /\ UNCHANGED <<users, hospitals>>
       ELSE IF notPending(user.approvalStatus)
       THEN /\ Respond("approveUser", actor, userId, 400, "not_pending", {}, {})
            /\ UNCHANGED <<users, hospitals>>
       ELSE /\ users' = [users EXCEPT ![userId] = UserApprove(user, actor)]
            /\ hospitals' = [h \in HospitalIds |->
                               IF h \in cascade
                               THEN HospitalApprove(hospitals[h], actor)
                               ELSE hospitals[h]]
            /\ \E delivered \in BOOLEAN :
                  Notified("approveUser", actor, userId, user.email, delivered)

\* POST /reject-user/:userId   protect, authorize('super_admin', 'hospital')
\* reason: the body's reason after the route's trim(), Null when missing.
\* The route's validation chain is followed by no handler that reads its
\* result, so the only test of the reason is !reason.
rejectUser(actor, userId, reason) ==
    LET user == users[userId] IN
    /\ UNCHANGED <<hospitals, clinics, referrals>>
    /\ IF ~protect(actor)
       THEN /\ Respond("rejectUser", actor, userId, 401, "auth", {}, {})
            /\ UNCHANGED users
       ELSE IF ~authorize(actor, {"super_admin", "hospital"})
       THEN /\ Respond("rejectUser", actor, userId, 403, "role", {}, {})
            /\ UNCHANGED users
       ELSE IF reason \in {Null, Empty}
       THEN /\ Respond("rejectUser", actor, userId, 400, "reason_required", {}, {})
            /\ UNCHANGED users
       ELSE IF ~user.exists
       THEN /\ Respond("rejectUser", actor, userId, 404, "not_found", {}, {})
            /\ UNCHANGED users
       ELSE IF notPending(user.approvalStatus)
       THEN /\ Respond("rejectUser", actor, userId, 400, "not_pending", {}, {})
            /\ UNCHANGED users
       ELSE /\ users' = [users EXCEPT ![userId] =
                            UserReject(user, reason, actor)]
            /\ \E delivered \in BOOLEAN :
                  Notified("rejectUser", actor, userId, user.email, delivered)

\* the lookup without the approvalStatus condition
hospitalUserOfAnyStatus(email) ==
    {u \in UserByEmail(email) : users[u].role = "hospital"}

\* User.findOne({ email, role: 'hospital', approvalStatus: 'pending' })
pendingHospitalUser(email) ==
    {u \in UserByEmail(email) :
        users[u].role = "hospital" /\ users[u].approvalStatus = "pending"}

\* POST /approve-hospital/:hospitalId   protect, authorize('super_admin')
approveHospital(actor, hospitalId) ==
    LET hospital == hospitals[hospitalId]
        hospitalUser == pendingHospitalUser(hospital.email)
    IN
    /\ UNCHANGED <<clinics, referrals>>
    /\ IF ~protect(actor)
       THEN /\ Respond("approveHospital", actor, hospitalId, 401, "auth", {}, {})
            /\ UNCHANGED <<users, hospitals>>
       ELSE IF ~authorize(actor, {"super_admin"})
       THEN /\ Respond("approveHospital", actor, hospitalId, 403, "role", {}, {})
            /\ UNCHANGED <<users, hospitals>>
       ELSE IF ~hospital.exists
       THEN /\ Respond("approveHospital", actor, hospitalId, 404, "not_found",
                       {}, {})
            /\ UNCHANGED <<users, hospitals>>
       ELSE IF notPending(hospital.status)
       THEN /\ Respond("approveHospital", actor, hospitalId, 400, "not_pending",
                       {}, {})
            /\ UNCHANGED <<users, hospitals>>
       ELSE /\ users' = [u \in UserIds |->
                           IF u \in hospitalUser
                           THEN [users[u] EXCEPT !.approvalStatus = "approved",
                                                 !.approvedBy = actor,
                                                 !.approvedAt = Now]
                           ELSE users[u]]
            /\ hospitals' = [hospitals EXCEPT ![hospitalId] =
                                HospitalApprove(hospital, actor)]
            /\ \E delivered \in BOOLEAN :
                  Notified("approveHospital", actor, hospitalId, hospital.email,
                           delivered)

\* POST /reject-hospital/:hospitalId   protect, authorize('super_admin')
\* The rejection mail is sent only if hospital.adminId is set; the Hospital
\* schema has no such path, so no mail is attempted.
rejectHospital(actor, hospitalId, reason) ==
    LET hospital == hospitals[hospitalId] IN
    /\ UNCHANGED <<users, clinics, referrals>>
    /\ IF ~protect(actor)
       THEN /\ Respond("rejectHospital", actor, hospitalId, 401, "auth", {}, {})
            /\ UNCHANGED hospitals
       ELSE IF ~authorize(actor, {"super_admin"})
       THEN /\ Respond("rejectHospital", actor, hospitalId, 403, "role", {}, {})
            /\ UNCHANGED hospitals
       ELSE IF reason \in {Null, Empty}
       THEN /\ Respond("rejectHospital", actor, hospitalId, 400,
                       "reason_required", {}, {})
            /\ UNCHANGED hospitals
       ELSE IF ~hospital.exists
       THEN /\ Respond("rejectHospital", actor, hospitalId, 404, "not_found",
                       {}, {})
            /\ UNCHANGED hospitals
       ELSE IF notPending(hospital.status)
       THEN /\ Respond("rejectHospital", actor, hospitalId, 400, "not_pending",
                       {}, {})
            /\ UNCHANGED hospitals
       ELSE /\ hospitals' = [hospitals EXCEPT ![hospitalId] =
                                HospitalReject(hospital, reason, actor)]
            /\ Respond("rejectHospital", actor, hospitalId, 200, Null, {}, {})

----------------------------------------------------------------------------
(* Generic update handlers *)

\* PUT /api/users/:id   protect, authorize('super_admin'), validateUserUpdate
\* body: the fields of the request body, Null when absent; setRole is the
\* role inside a $set operator of the body ({ "$set": { "role": ... } });
\* isActive is <<>> when absent and <<b>> when the body holds the boolean b.
\* The keys password and role are deleted from the body; what is left is the
\* update document of findByIdAndUpdate, which writes the top-level paths
\* and applies the operators.
updateUser(actor, id, body) ==
    LET user == users[id]
        updateData == [body EXCEPT !.role = Null]
        updated == [user EXCEPT
                      !.approvalStatus =
                          IF updateData.approvalStatus # Null
                          THEN updateData.approvalStatus ELSE @,
                      !.role = IF updateData.role # Null THEN updateData.role
                               ELSE IF updateData.setRole # Null
                               THEN updateData.setRole ELSE @,
                      !.isActive = IF updateData.isActive # <<>>
                                   THEN updateData.isActive[1] ELSE @]
    IN
    /\ UNCHANGED <<hospitals, clinics, referrals>>
    /\ IF ~protect(actor)
       THEN /\ Respond("updateUser", actor, id, 401, "auth", {}, {})
            /\ UNCHANGED users
       ELSE IF ~authorize(actor, {"super_admin"})
       THEN /\ Respond("updateUser", actor, id, 403, "role", {}, {})
            /\ UNCHANGED users
       ELSE IF ~user.exists
       THEN /\ Respond("updateUser", actor, id, 404, "not_found", {}, {})
            /\ UNCHANGED users
       ELSE /\ users' = [users EXCEPT ![id] = updated]
            /\ Respond("updateUser", actor, id, 200, Null, {}, {})

\* DELETE /api/users/:id   protect, authorize('super_admin')
deleteUser(actor, id) ==
    LET user == users[id] IN
    /\ UNCHANGED <<hospitals, clinics, referrals>>
    /\ IF ~protect(actor)
       THEN /\ Respond("deleteUser", actor, id, 401, "auth", {}, {})
            /\ UNCHANGED users
       ELSE IF ~authorize(actor, {"super_admin"})
       THEN /\ Respond("deleteUser", actor, id, 403, "role", {}, {})
            /\ UNCHANGED users
       ELSE IF ~user.exists
       THEN /\ Respond("deleteUser", actor, id, 404, "not_found", {}, {})
            /\ UNCHANGED users
       ELSE IF user.role = "super_admin"
       THEN /\ Respond("deleteUser", actor, id, 403, "super_admin", {}, {})
            /\ UNCHANGED users
       ELSE /\ users' = [users EXCEPT ![id] = NoUser]
            /\ Respond("deleteUser", actor, id, 200, Null, {}, {})

\* PATCH /api/users/:id/toggle-status   protect, authorize('super_admin')
toggleUserStatus(actor, id) ==
    LET user == users[id] IN
    /\ UNCHANGED <<hospitals, clinics, referrals>>
    /\ IF ~protect(actor)
       THEN /\ Respond("toggleUserStatus", actor, id, 401, "auth", {}, {})
            /\ UNCHANGED users
       ELSE IF ~authorize(actor, {"super_admin"})
       THEN /\ Respond("toggleUserStatus", actor, id, 403, "role", {}, {})
            /\ UNCHANGED users
       ELSE IF ~user.exists
       THEN /\ Respond("toggleUserStatus", actor, id, 404, "not_found", {}, {})
            /\ UNCHANGED users
       ELSE IF user.role = "super_admin" /\ user.isActive
       THEN /\ Respond("toggleUserStatus", actor, id, 403, "super_admin", {}, {})
            /\ UNCHANGED users
       ELSE /\ users' = [users EXCEPT ![id].isActive = ~user.isActive]
            /\ Respond("toggleUserStatus", actor, id, 200, Null, {}, {})

\* User.find({ $or: [{ hospitalId: id }, { role: 'hospital', hospitalId: id }] })
associatedUsers(id) ==
    {u \in UserIds : users[u].exists /\ users[u].hospitalId = id}

\* DELETE /api/hospitals/:id   protect, authorize('super_admin')
\* deleteUsers: the body's deleteUsers (false when absent)
deleteHospital(actor, id, deleteUsers) ==
    LET hospital == hospitals[id] IN
    /\ UNCHANGED <<clinics, referrals>>
    /\ IF ~protect(actor)
       THEN /\ Respond("deleteHospital", actor, id, 401, "auth", {}, {})
            /\ UNCHANGED <<users, hospitals>>
       ELSE IF ~authorize(actor, {"super_admin"})
       THEN /\ Respond("deleteHospital", actor, id, 403, "role", {}, {})
            /\ UNCHANGED <<users, hospitals>>
       ELSE IF ~hospital.exists
       THEN /\ Respond("deleteHospital", actor, id, 404, "not_found", {}, {})
            /\ UNCHANGED <<users, hospitals>>
       ELSE IF associatedUsers(id) # {} /\ ~deleteUsers
       THEN /\ Respond("deleteHospital", actor, id, 400, "associated_users", {}, {})
            /\ UNCHANGED <<users, hospitals>>
       ELSE /\ users' = [u \in UserIds |->
                           IF u \in associatedUsers(id) THEN NoUser ELSE users[u]]
            /\ hospitals' = [hospitals EXCEPT ![id] = NoHospital]
            /\ Respond("deleteHospital", actor, id, 200, Null, {}, {})

\* PUT /api/hospitals/:id   protectWithApproval,
\* authorize('super_admin', 'hospital'), validateHospitalUpdate
\* status: the body's status, Null when absent
updateHospital(actor, id, status) ==
    LET hospital == hospitals[id] IN
    /\ UNCHANGED <<users, clinics, referrals>>
    /\ IF ~protect(actor)
       THEN /\ Respond("updateHospital", actor, id, 401, "auth", {}, {})
            /\ UNCHANGED hospitals
       ELSE IF ~checkApprovalStatus(actor)
       THEN /\ Respond("updateHospital", actor, id, 403, "approval", {}, {})
            /\ UNCHANGED hospitals
       ELSE IF ~authorize(actor, {"super_admin", "hospital"})
       THEN /\ Respond("updateHospital", actor, id, 403, "role", {}, {})
            /\ UNCHANGED hospitals
       ELSE IF ~hospital.exists
       THEN /\ Respond("updateHospital", actor, id, 404, "not_found", {}, {})
            /\ UNCHANGED hospitals
       ELSE IF users[actor].role = "hospital" /\ users[actor].hospitalId = Null
       THEN \* req.user.hospitalId.toString() throws on undefined
            /\ Respond("updateHospital", actor, id, 500, "error", {}, {})
            /\ UNCHANGED hospitals
       ELSE IF users[actor].role = "hospital" /\ users[actor].hospitalId # id
       THEN /\ Respond("updateHospital", actor, id, 403, "not_own", {}, {})
            /\ UNCHANGED hospitals
       ELSE /\ hospitals' = [hospitals EXCEPT ![id].status =
                                IF status # Null THEN status ELSE @]
            /\ Respond("updateHospital", actor, id, 200, Null, {}, {})

----------------------------------------------------------------------------
(* Referral controller (routes: /api/referrals, router.use(protect)) *)

\* Text is a sequence of characters.  $regex with $options 'i' on a literal
\* pattern: the pattern occurs in the text, compared without case.
Lower(c) ==
    IF c = "A" THEN "a" ELSE IF c = "B" THEN "b" ELSE IF c = "R" THEN "r"
    ELSE IF c = "E" THEN "e" ELSE IF c = "F" THEN "f" ELSE c

regexMatch(text, search) ==
    \E i \in 1..(Len(text) - Len(search) + 1) :
          \A j \in 1..Len(search) : Lower(text[i + j - 1]) = Lower(search[j])

\* populate(): the referenced document, or null when the id does not resolve
populateUser(id) == IF id \in UserIds /\ users[id].exists THEN id ELSE Null
populateHospital(id) ==
    IF id \in HospitalIds /\ hospitals[id].exists THEN id ELSE Null

\* The Mongo filter built by getReferrals, applied to one stored referral.
\* query: the equality conditions (Null when not set); orConditions: the
\* role scope and the super admin's hospitalId / doctorId filters, as a set
\* of <<path, value>> pairs; search: NoText when absent.
referralQueryMatches(referral, query, orConditions, search) ==
    LET scope == \E c \in orConditions : referral[c[1]] = c[2]
        searched == \/ regexMatch(referral.referralId, search)
                    \/ regexMatch(referral.reason, search)
                    \/ regexMatch(referral.chiefComplaint, search)
                    \/ regexMatch(referral.specialty, search)
    IN
    /\ referral.exists
    /\ query.patient # Null => referral.patient = query.patient
    /\ query.status # Null => referral.status = query.status
    /\ query.priority # Null => referral.priority = query.priority
    /\ query.specialty # NoText => referral.specialty = query.specialty
    /\ IF search # NoText
       THEN IF orConditions # {} THEN scope /\ searched ELSE searched
       ELSE orConditions # {} => scope

\* the referrals that the filter built by getReferrals finds
\* q: the query string; a field is Null (NoText for text) when absent.
referralsFound(actor, q) ==
    LET user == users[actor]
        roleScope ==
            IF user.role = "hospital" /\ user.hospitalId # Null
            THEN {<<"referringHospital", user.hospitalId>>,
                  <<"receivingHospital", user.hospitalId>>}
            ELSE IF user.role = "doctor"
            THEN {<<"referringDoctor", actor>>, <<"receivingDoctor", actor>>}
            ELSE {}
        hospitalScope ==
            IF q.hospitalId # Null /\ user.role = "super_admin"
            THEN {<<"referringHospital", q.hospitalId>>,
                  <<"receivingHospital", q.hospitalId>>}
            ELSE {}
        doctorScope ==
            IF q.doctorId # Null /\ user.role = "super_admin"
            THEN {<<"referringDoctor", q.doctorId>>,
                  <<"receivingDoctor", q.doctorId>>}
            ELSE {}
        \* query.patient = user._id for a patient, then overwritten by the
        \* patientId of the query string
        patient == IF q.patientId # Null THEN q.patientId
                   ELSE IF user.role = "patient" THEN actor ELSE Null
        query == [patient |-> patient, status |-> q.status,
                  priority |-> q.priority, specialty |-> q.specialty]
        orConditions == roleScope \cup hospitalScope \cup doctorScope
    IN
    {r \in ReferralIds :
        referralQueryMatches(referrals[r], query, orConditions, q.search)}

\* GET /api/referrals
\* The stored referrals fit one page (limit 10).
getReferrals(actor, q) ==
    /\ UNCHANGED <<users, hospitals, clinics, referrals>>
    /\ IF ~protect(actor)
       THEN Respond("getReferrals", actor, Null, 401, "auth", {}, {})
       ELSE Respond("getReferrals", actor, Null, 200, Null,
                    referralsFound(actor, q), {})

\* the doctors that the filter built by getDoctors finds
\* q: the query string, of which hospitalId and status are given (Null when
\* absent)
doctorsFound(actor, q) ==
    LET user == users[actor]
        hospitalId == IF q.hospitalId # Null THEN q.hospitalId
                      ELSE IF user.role = "hospital" /\ user.hospitalId # Null
                      THEN user.hospitalId
                      ELSE Null
    IN
    {d \in UserIds :
        /\ users[d].exists /\ users[d].role = "doctor"
        /\ hospitalId # Null => users[d].hospitalId = hospitalId
        /\ q.status = "active"
              => users[d].approvalStatus = "approved" /\ users[d].isActive
        /\ q.status = "inactive" => ~users[d].isActive
        /\ q.status \notin {Null, "all", "active", "inactive"}
              => users[d].approvalStatus = q.status}

\* GET /api/doctors   protect, authorize('super_admin', 'hospital', 'doctor')
\* The stored doctors fit one page (limit 10).
getDoctors(actor, q) ==
    /\ UNCHANGED <<users, hospitals, clinics, referrals>>
    /\ IF ~protect(actor)
       THEN Respond("getDoctors", actor, Null, 401, "auth", {}, {})
       ELSE IF ~authorize(actor, {"super_admin", "hospital", "doctor"})
       THEN Respond("getDoctors", actor, Null, 403, "role", {}, {})
       ELSE Respond("getDoctors", actor, Null, 200, Null, doctorsFound(actor, q), {})

\* doctor.hospitalId?.toString() after populate('hospitalId', ...): the
\* path holds the Hospital document (null when the id does not resolve) and
\* its toString() is the text inspect() prints for it, not the id
populatedHospitalToString(hospitalId) ==
    IF populateHospital(hospitalId) = Null THEN Null
    ELSE IF hospitalId = "h1" THEN "{ _id: h1, name, address }"
    ELSE "{ _id: h2, name, address }"

\* GET /api/doctors/:id   protect,
\* authorize('super_admin', 'hospital', 'doctor')
getDoctorById(actor, id) ==
    LET user == users[actor]
        doctor == users[id]
        doctorHospitalId == populatedHospitalToString(doctor.hospitalId)
        isOwnHospitalDoctor == doctorHospitalId = user.hospitalId
        isApprovedDoctorFromOtherHospital ==
            /\ doctorHospitalId # Null /\ doctorHospitalId # user.hospitalId
            /\ doctor.approvalStatus = "approved"
        isApprovedClinicDoctor ==
            doctorHospitalId = Null /\ doctor.approvalStatus = "approved"
    IN
    /\ UNCHANGED <<users, hospitals, clinics, referrals>>
    /\ IF ~protect(actor)
       THEN Respond("getDoctorById", actor, id, 401, "auth", {}, {})
       ELSE IF ~authorize(actor, {"super_admin", "hospital", "doctor"})
       THEN Respond("getDoctorById", actor, id, 403, "role", {}, {})
       ELSE IF ~(doctor.exists /\ doctor.role = "doctor")
       THEN Respond("getDoctorById", actor, id, 404, "not_found", {}, {})
       ELSE IF /\ user.role = "hospital" /\ user.hospitalId # Null
               /\ ~isOwnHospitalDoctor /\ ~isApprovedDoctorFromOtherHospital
               /\ ~isApprovedClinicDoctor
       THEN Respond("getDoctorById", actor, id, 403, "access_denied", {}, {})
       ELSE Respond("getDoctorById", actor, id, 200, Null, {id}, {})

\* the referrals that the filter built by getDoctorReferrals finds: with a
\* search the three $regex conditions are added to the $or of the two
\* doctor conditions
\* q: the query string, of which status, priority and search are read
doctorReferralsFound(id, q) ==
    {r \in ReferralIds :
        LET referral == referrals[r]
            ofDoctor == referral.referringDoctor = id \/ referral.receivingDoctor = id
            searched == \/ regexMatch(referral.referralId, q.search)
                        \/ regexMatch(referral.reason, q.search)
                        \/ regexMatch(referral.specialty, q.search)
        IN
        /\ referral.exists
        /\ q.status # Null => referral.status = q.status
        /\ q.priority # Null => referral.priority = q.priority
        /\ IF q.search # NoText THEN ofDoctor \/ searched ELSE ofDoctor}

\* GET /api/doctors/:id/referrals   protect, authorize('doctor', 'hospital')
\* The stored referrals fit one page (limit 10).
getDoctorReferrals(actor, id, q) ==
    LET user == users[actor]
        doctor == users[id]
    IN
    /\ UNCHANGED <<users, hospitals, clinics, referrals>>
    /\ IF ~protect(actor)
       THEN Respond("getDoctorReferrals", actor, id, 401, "auth", {}, {})
       ELSE IF ~authorize(actor, {"doctor", "hospital"})
       THEN Respond("getDoctorReferrals", actor, id, 403, "role", {}, {})
       ELSE IF ~(doctor.exists /\ doctor.role = "doctor")
       THEN Respond("getDoctorReferrals", actor, id, 404, "not_found", {}, {})
       ELSE IF user.role = "doctor" /\ actor # id
       THEN Respond("getDoctorReferrals", actor, id, 403, "access_denied", {}, {})
       ELSE IF /\ user.role = "hospital" /\ user.hospitalId # Null
               /\ doctor.hospitalId # user.hospitalId
       THEN Respond("getDoctorReferrals", actor, id, 403, "access_denied", {}, {})
       ELSE Respond("getDoctorReferrals", actor, id, 200, Null,
                    doctorReferralsFound(id, q), {})

\* the doctor is refused only when the referral names a receiving doctor
doctorDeniedIfReceiverNamed(actor, referral) ==
    /\ populateUser(referral.referringDoctor) # actor
    /\ populateUser(referral.receivingDoctor) # Null
    /\ populateUser(referral.receivingDoctor) # actor

\* the doctor branch of the access check: the actor is neither the
\* populated referring doctor nor the populated receiving doctor
doctorDenied(actor, referral) ==
    /\ populateUser(referral.referringDoctor) # actor
    /\ populateUser(referral.receivingDoctor) # actor

\* getReferralById after findById: the status code of the checks on the
\* document that was found (NoReferral: nothing was found); 200: they pass
getReferralByIdAccess(actor, referral) ==
    LET user == users[actor] IN
    IF ~referral.exists THEN 404
    ELSE IF /\ user.role = "hospital" /\ user.hospitalId # Null
            /\ populateHospital(referral.referringHospital) # user.hospitalId
            /\ populateHospital(referral.receivingHospital) # user.hospitalId
    THEN 403
    ELSE IF /\ ~(user.role = "hospital" /\ user.hospitalId # Null)
            /\ user.role = "doctor"
            /\ doctorDenied(actor, referral)
    THEN 403
    ELSE IF /\ user.role = "patient"
            /\ populateUser(referral.patient) # actor
    THEN 403
    ELSE 200

\* GET /api/referrals/:id
getReferralById(actor, id) ==
    LET access == getReferralByIdAccess(actor, referrals[id]) IN
    /\ UNCHANGED <<users, hospitals, clinics, referrals>>
    /\ IF ~protect(actor)
       THEN Respond("getReferralById", actor, id, 401, "auth", {}, {})
       ELSE IF access = 404
       THEN Respond("getReferralById", actor, id, 404, "not_found", {}, {})
       ELSE IF access = 403
       THEN Respond("getReferralById", actor, id, 403, "access_denied", {}, {})
       ELSE Respond("getReferralById", actor, id, 200, Null, {id}, {})

\* referralSchema enums
ReferralStatusEnum == {"pending", "accepted", "rejected", "completed", "cancelled"}
PriorityEnum == {"low", "medium", "high", "urgent"}

\* validStatuses of updateReferralStatus
validStatuses ==
    {"pending", "accepted", "in_progress", "completed", "cancelled", "rejected"}

\* referral.save(): the validators of the schema and the unique index on
\* referralId (self: the _id of the saved document)
referralSaves(self, referral) ==
    /\ referral.status \in ReferralStatusEnum
    /\ referral.priority \in PriorityEnum
    /\ referral.patient # Null
    /\ referral.referringDoctor # Null /\ referral.referringHospital # Null
    /\ referral.receivingHospital # Null
    /\ referral.reason # NoText /\ referral.specialty # NoText
    /\ referral.chiefComplaint # NoText
    /\ \A r \in ReferralIds \ {self} :
          referrals[r].exists => referrals[r].referralId # referral.referralId

\* the approved, active doctors of a hospital
approvedDoctors(hospitalId) ==
    {d \in UserIds : /\ users[d].exists /\ users[d].role = "doctor"
                     /\ users[d].hospitalId = hospitalId
                     /\ users[d].approvalStatus = "approved"
                     /\ users[d].isActive}

\* the approved, active doctor created last
latestDoctor(hospitalId) ==
    CHOOSE d \in approvedDoctors(hospitalId) :
        \A e \in approvedDoctors(hospitalId) : users[d].createdAt >= users[e].createdAt

\* User.findOne({...}).sort({ createdAt: 1 })
defaultDoctor(hospitalId) ==
    CHOOSE d \in approvedDoctors(hospitalId) :
        \A e \in approvedDoctors(hospitalId) : users[d].createdAt <= users[e].createdAt

\* POST /api/referrals
\* body: the request body (absent fields Null / NoText); referralId: the
\* value Referral.generateReferralId() returns; the new document is stored
\* under the first unused _id.
createReferral(actor, body, referralId) ==
    LET user == users[actor]
        free == {k \in 1..MaxReferrals : ~referrals[ReferralName[k]].exists}
        self == ReferralName[CHOOSE k \in free : \A l \in free : k <= l]
        required == /\ body.patientId # Null /\ body.receivingHospitalId # Null
                    /\ body.reason # NoText /\ body.specialty # NoText
                    /\ body.chiefComplaint # NoText
        specified == body.referringDoctorId
        byAdmin == user.role = "hospital"
        \* specifiedDoctor is rejected without reading user.hospitalId
        specifiedMissing == ~(specified \in UserIds /\ users[specified].exists
                               /\ users[specified].role = "doctor")
        referringDoctor ==
            IF user.role = "doctor" THEN actor
            ELSE IF byAdmin /\ specified # Null THEN specified
            ELSE IF byAdmin /\ approvedDoctors(user.hospitalId) # {}
            THEN defaultDoctor(user.hospitalId)
            ELSE Null
        referringHospital ==
            IF user.role = "doctor"
            THEN (IF user.hospitalId # Null THEN user.hospitalId ELSE user.clinicId)
            ELSE IF byAdmin THEN user.hospitalId
            ELSE Null
        referral ==
            [NoReferral EXCEPT
               !.exists = TRUE, !.referralId = referralId,
               !.patient = body.patientId,
               !.referringDoctor = referringDoctor,
               !.referringHospital = referringHospital,
               !.receivingHospital = body.receivingHospitalId,
               !.receivingDoctor = body.receivingDoctorId,
               !.reason = body.reason,
               !.priority = IF body.priority # Null THEN body.priority ELSE "medium",
               !.specialty = body.specialty,
               !.chiefComplaint = body.chiefComplaint,
               !.status = "pending"]
    IN
    /\ free # {}
    /\ UNCHANGED <<users, hospitals, clinics>>
    /\ IF ~protect(actor)
       THEN /\ Respond("createReferral", actor, Null, 401, "auth", {}, {})
            /\ UNCHANGED referrals
       ELSE IF ~required
       THEN /\ Respond("createReferral", actor, Null, 400, "required", {}, {})
            /\ UNCHANGED referrals
       ELSE IF ~(body.patientId \in UserIds /\ users[body.patientId].exists
                 /\ users[body.patientId].role = "patient")
       THEN /\ Respond("createReferral", actor, Null, 400, "invalid_patient", {}, {})
            /\ UNCHANGED referrals
       ELSE IF populateHospital(body.receivingHospitalId) = Null
       THEN /\ Respond("createReferral", actor, Null, 400, "invalid_hospital", {}, {})
            /\ UNCHANGED referrals
       ELSE IF byAdmin /\ specified # Null /\ specifiedMissing
       THEN /\ Respond("createReferral", actor, Null, 400, "invalid_doctor", {}, {})
            /\ UNCHANGED referrals
       ELSE IF byAdmin /\ specified # Null /\ user.hospitalId = Null
       THEN \* user.hospitalId.toString() throws on undefined
            /\ Respond("createReferral", actor, Null, 500, "error", {}, {})
            /\ UNCHANGED referrals
       ELSE IF byAdmin /\ specified # Null
               /\ users[specified].hospitalId # user.hospitalId
       THEN /\ Respond("createReferral", actor, Null, 400, "invalid_doctor", {}, {})
            /\ UNCHANGED referrals
       ELSE IF byAdmin /\ specified = Null /\ approvedDoctors(user.hospitalId) = {}
       THEN /\ Respond("createReferral", actor, Null, 400, "no_doctor", {}, {})
            /\ UNCHANGED referrals
       ELSE IF referringDoctor = Null \/ referringHospital = Null
       THEN /\ Respond("createReferral", actor, Null, 400, "referring_required",
                       {}, {})
            /\ UNCHANGED referrals
       ELSE IF ~referralSaves(self, referral)
       THEN /\ Respond("createReferral", actor, Null, 500, "error", {}, {})
            /\ UNCHANGED referrals
       ELSE /\ referrals' = [referrals EXCEPT ![self] = referral]
            /\ Respond("createReferral", actor, self, 201, Null, {self}, {})

\* the comparison of the receiving doctor's hospital left out
doctorHospitalUnchecked(doctorId, hospitalId) == FALSE

\* the receiving doctor has a hospitalId and it is not the receiving hospital
doctorOutsideHospital(doctorId, hospitalId) ==
    /\ users[doctorId].hospitalId # Null
    /\ users[doctorId].hospitalId # hospitalId

\* updateReferral after findById: the status code of the checks on the
\* document that was found (NoReferral: nothing was found); 200: they pass
updateReferralAccess(actor, referral) ==
    LET user == users[actor] IN
    IF ~referral.exists THEN 404
    ELSE IF /\ user.role = "hospital" /\ user.hospitalId # Null
            /\ referral.referringHospital # user.hospitalId
            /\ referral.receivingHospital # user.hospitalId
    THEN 403
    ELSE 200

\* PUT /api/referrals/:id
\* updateData: the request body.  Absent fields are Null (NoText for text);
\* receivingDoctorId may also be Empty, which clears the receiving doctor.
\* Of allowedFields the model keeps reason, priority, specialty and
\* chiefComplaint; notes (like treatmentPlan) is no path of referralSchema,
\* so the assignment of it is not saved.
updateReferral(actor, id, updateData) ==
    LET user == users[actor]
        referral == referrals[id]
        hospitalSent == updateData.receivingHospitalId # Null
                        \/ updateData.receivingHospital # Null
        newReceivingHospitalId ==
            IF updateData.receivingHospitalId # Null
            THEN updateData.receivingHospitalId
            ELSE IF updateData.receivingHospital # Null
            THEN updateData.receivingHospital
            ELSE referral.receivingHospital
        sentDoctor == IF updateData.receivingDoctorId # Null
                      THEN updateData.receivingDoctorId
                      ELSE updateData.receivingDoctor
        newReceivingDoctorId ==
            IF sentDoctor = Null THEN referral.receivingDoctor
            ELSE IF sentDoctor = Empty THEN Null
            ELSE sentDoctor
        checked == newReceivingDoctorId # Null /\ newReceivingHospitalId # Null
        doctorFound == /\ newReceivingDoctorId \in UserIds
                       /\ users[newReceivingDoctorId].exists
                       /\ users[newReceivingDoctorId].role = "doctor"
        \* the receiving doctor is cleared when the hospital was sent and the
        \* doctor belongs to another hospital
        cleared == /\ hospitalSent /\ newReceivingDoctorId # Null
                   /\ newReceivingDoctorId \in UserIds
                   /\ users[newReceivingDoctorId].exists
                   /\ users[newReceivingDoctorId].hospitalId # Null
                   /\ users[newReceivingDoctorId].hospitalId # newReceivingHospitalId
        updated ==
            [referral EXCEPT
               !.receivingHospital = newReceivingHospitalId,
               !.receivingDoctor = IF cleared THEN Null ELSE newReceivingDoctorId,
               !.reason = IF updateData.reason # NoText THEN updateData.reason ELSE @,
               !.priority = IF updateData.priority # Null
                            THEN updateData.priority ELSE @,
               !.specialty = IF updateData.specialty # NoText
                             THEN updateData.specialty ELSE @,
               !.chiefComplaint = IF updateData.chiefComplaint # NoText
                                  THEN updateData.chiefComplaint ELSE @]
    IN
    /\ UNCHANGED <<users, hospitals, clinics>>
    /\ IF ~protect(actor)
       THEN /\ Respond("updateReferral", actor, id, 401, "auth", {}, {})
            /\ UNCHANGED referrals
       ELSE IF updateReferralAccess(actor, referral) = 404
       THEN /\ Respond("updateReferral", actor, id, 404, "not_found", {}, {})
            /\ UNCHANGED referrals
       ELSE IF updateReferralAccess(actor, referral) = 403
       THEN /\ Respond("updateReferral", actor, id, 403, "access_denied", {}, {})
            /\ UNCHANGED referrals
       ELSE IF checked /\ ~doctorFound
       THEN /\ Respond("updateReferral", actor, id, 400, "invalid_doctor", {}, {})
            /\ UNCHANGED referrals
       ELSE IF /\ checked
               /\ doctorOutsideHospital(newReceivingDoctorId, newReceivingHospitalId)
       THEN /\ Respond("updateReferral", actor, id, 400, "doctor_not_in_hospital",
                       {}, {})
            /\ UNCHANGED referrals
       ELSE IF ~referralSaves(id, updated)
       THEN /\ Respond("updateReferral", actor, id, 500, "error", {}, {})
            /\ UNCHANGED referrals
       ELSE /\ referrals' = [referrals EXCEPT ![id] = updated]
            /\ Respond("updateReferral", actor, id, 200, Null, {id}, {})

\* the subdocument Mongoose stores for the object pushed to the timeline:
\* the schema of a timeline entry has the paths action, timestamp,
\* performedBy and notes; status and updatedBy are no paths of it and are
\* dropped (strict mode)
timelineEntry(status, updatedBy, notes) ==
    [action |-> Null, performedBy |-> Null, notes |-> notes, timestamp |-> Now]

\* the pushed entry replaces the stored timeline
timelinePushReplacing(timeline, entry) == <<entry>>

\* referral.timeline.push(entry)
timelinePush(timeline, entry) == Append(timeline, entry)

\* `Status changed to ${status}`
defaultNotes(status) == <<"Status changed to ", status>>

\* updateReferralStatus after findById: the status code of the checks on
\* the document that was found (NoReferral: nothing was found); 200: they
\* pass
updateReferralStatusAccess(actor, referral) ==
    LET user == users[actor] IN
    IF ~referral.exists THEN 404
    ELSE IF /\ user.role = "hospital" /\ user.hospitalId # Null
            /\ referral.receivingHospital # user.hospitalId
    THEN 403
    ELSE 200

\* PATCH /api/referrals/:id/status
\* status: Null when absent; notes: NoText when absent
updateReferralStatus(actor, id, status, notes) ==
    LET user == users[actor]
        referral == referrals[id]
        updated ==
            [referral EXCEPT
               !.status = status,
               !.timeline = timelinePush(@, timelineEntry(status, actor,
                               IF notes # NoText THEN notes
                               ELSE defaultNotes(status)))]
    IN
    /\ Len(referral.timeline) < MaxTimeline
    /\ UNCHANGED <<users, hospitals, clinics>>
    /\ IF ~protect(actor)
       THEN /\ Respond("updateReferralStatus", actor, id, 401, "auth", {}, {})
            /\ UNCHANGED referrals
       ELSE IF status = Null
       THEN /\ Respond("updateReferralStatus", actor, id, 400, "status_required",
                       {}, {})
            /\ UNCHANGED referrals
       ELSE IF status \notin validStatuses
       THEN /\ Respond("updateReferralStatus", actor, id, 400, "invalid_status",
                       {}, {})
            /\ UNCHANGED referrals
       ELSE IF updateReferralStatusAccess(actor, referral) = 404
       THEN /\ Respond("updateReferralStatus", actor, id, 404, "not_found", {}, {})
            /\ UNCHANGED referrals
       ELSE IF updateReferralStatusAccess(actor, referral) = 403
       THEN /\ Respond("updateReferralStatus", actor, id, 403, "not_receiving",
                       {}, {})
            /\ UNCHANGED referrals
       ELSE IF ~referralSaves(id, updated)
       THEN /\ Respond("updateReferralStatus", actor, id, 500, "error", {}, {})
            /\ UNCHANGED referrals
       ELSE /\ referrals' = [referrals EXCEPT ![id] = updated]
            /\ Respond("updateReferralStatus", actor, id, 200, Null, {id}, {})

----------------------------------------------------------------------------
(* The seeded store (seed.js): a super admin, two approved hospitals with
   their admins, one approved doctor in each hospital, an approved doctor
   with an own clinic and two patients, all approved by the super admin. *)

SeedUser(u, role, createdAt) ==
    [NoUser EXCEPT !.exists = TRUE, !.role = role, !.email = UserEmail(u),
                   !.approvalStatus = "approved", !.isActive = TRUE,
                   !.approvedBy = "sa", !.approvedAt = Now,
                   !.createdAt = createdAt]

SeedHospital(h) ==
    [NoHospital EXCEPT !.exists = TRUE, !.email = HospitalEmail(h),
                       !.status = "approved", !.approvedBy = "sa",
                       !.approvedAt = Now]

SeededUsers ==
    [u \in UserIds |->
        IF u = "sa" THEN SeedAdmin
        ELSE IF u = "a1" THEN [SeedUser(u, "hospital", 2) EXCEPT !.hospitalId = "h1"]
        ELSE IF u = "a2" THEN [SeedUser(u, "hospital", 3) EXCEPT !.hospitalId = "h2"]
        ELSE IF u = "d1" THEN [SeedUser(u, "doctor", 4) EXCEPT
                                 !.practiceType = "hospital", !.hospitalId = "h1"]
        ELSE IF u = "d2" THEN [SeedUser(u, "doctor", 5) EXCEPT
                                 !.practiceType = "hospital", !.hospitalId = "h2"]
        ELSE IF u = "d3" THEN [SeedUser(u, "doctor", 6) EXCEPT
                                 !.practiceType = "own_clinic", !.clinicId = "c3"]
        ELSE IF u = "p1" THEN SeedUser(u, "patient", 7)
        ELSE IF u = "p2" THEN SeedUser(u, "patient", 8)
        ELSE NoUser]

InitSeeded ==
    /\ users = SeededUsers
    /\ hospitals = [h \in HospitalIds |-> SeedHospital(h)]
    /\ clinics = [c \in ClinicIds |-> [exists |-> TRUE, ownerId |-> "d3"]]
    /\ referrals = [r \in ReferralIds |-> NoReferral]
    /\ res = NoResponse
    /\ inFlight = [k \in CallIds |-> NoCall]

----------------------------------------------------------------------------
(* Reading referrals: the seeded store, a hospital-role Account registered
   publicly, referrals created by doctors and hospital admins, and the two
   read handlers *)

ReferralBodies ==
    [patientId : {"p1", "p2"}, receivingHospitalId : {"h1", "h2"},
     receivingDoctorId : {Null, "d2"}, referringDoctorId : {Null},
     reason : {<<"a">>}, specialty : {<<"b">>}, chiefComplaint : {<<"A", "b">>},
     priority : {Null}, notes : {NoText}]

\* values of Referral.generateReferralId(): 'REF', then digits of the clock
\* and a random number
GeneratedIds == {<<"R", "E", "F", "1">>, <<"R", "E", "F", "2">>}

NoQuery ==
    [status |-> Null, priority |-> Null, specialty |-> NoText, search |-> NoText,
     hospitalId |-> Null, patientId |-> Null, doctorId |-> Null]

ReadQueries ==
    {NoQuery, [NoQuery EXCEPT !.patientId = "p1"],
     [NoQuery EXCEPT !.search = <<"a">>], [NoQuery EXCEPT !.hospitalId = "h2"],
     [NoQuery EXCEPT !.doctorId = "d2"]}

ReadActors == {"sa", "a1", "a3", "d1", "d2", "p1", "p2"}

ReferralReadNext ==
    \/ register("a3", TRUE)
    \/ \E actor \in {"a1", "a3", "d2"}, body \in ReferralBodies,
          referralId \in GeneratedIds :
            createReferral(actor, body, referralId)
    \/ \E actor \in ReadActors, q \in ReadQueries : getReferrals(actor, q)
    \/ \E actor \in ReadActors, id \in ReferralIds : getReferralById(actor, id)

SpecReferralRead == InitSeeded /\ [][ReferralReadNext]_vars

----------------------------------------------------------------------------
(* Writing referrals: the seeded store, a doctor and a hospital-role Account
   registered publicly (both pending), a hospital that stops being approved,
   and the three write handlers *)

NoUpdate ==
    [receivingHospitalId |-> Null, receivingHospital |-> Null,
     receivingDoctorId |-> Null, receivingDoctor |-> Null, reason |-> NoText,
     priority |-> Null, specialty |-> NoText, chiefComplaint |-> NoText,
     notes |-> NoText]

UpdateBodies ==
    {[NoUpdate EXCEPT !.notes = <<"n">>],
     [NoUpdate EXCEPT !.reason = <<"n">>],
     [NoUpdate EXCEPT !.receivingDoctorId = "d1"],
     [NoUpdate EXCEPT !.receivingDoctorId = Empty],
     [NoUpdate EXCEPT !.receivingHospitalId = "h1"]}

WriteBodies ==
    [patientId : {"p1"}, receivingHospitalId : {"h1", "h2"},
     receivingDoctorId : {Null, "d2"}, referringDoctorId : {Null},
     reason : {<<"a">>}, specialty : {<<"b">>}, chiefComplaint : {<<"A", "b">>},
     priority : {Null}, notes : {NoText}]

WriteActors == {"sa", "a1", "a2", "a3", "d1", "d4", "p1"}

ReferralWriteNext ==
    \/ \E u \in {"a3", "d4"} : register(u, TRUE)
    \/ updateHospital("sa", "h1", "suspended")
    \/ \E actor \in {"a1", "d1", "d4", "p1"}, body \in WriteBodies,
          referralId \in GeneratedIds :
            createReferral(actor, body, referralId)
    \/ \E actor \in WriteActors, id \in ReferralIds, updateData \in UpdateBodies :
            updateReferral(actor, id, updateData)
    \/ \E actor \in WriteActors, id \in ReferralIds,
          status \in {Null, "accepted", "in_progress", "archived"},
          notes \in {NoText, <<"n">>} :
            updateReferralStatus(actor, id, status, notes)

SpecReferralWrite == InitSeeded /\ [][ReferralWriteNext]_vars

----------------------------------------------------------------------------
(* The approval workflow from the empty store: a hospital registers with its
   admin, a doctor with an own clinic registers, and the approval routes and
   updateHospital are called by the super admin and by the hospital's admin *)

\* the reason of a reject request: missing, or given
Reasons == {Null, "incomplete documentation"}

ApprovalActors == {"sa", "a1"}
ApprovalAccounts == {"a1", "d3"}

ApprovalNext ==
    \/ \E clinicOk \in BOOLEAN : register("d3", clinicOk)
    \/ \E actor \in {Anonymous, "sa"}, status \in {Null, "approved"},
          withAdmin \in BOOLEAN :
            createHospital(actor, "h1", status, withAdmin)
    \/ \E actor \in ApprovalActors, u \in ApprovalAccounts : approveUser(actor, u)
    \/ \E actor \in ApprovalActors, u \in ApprovalAccounts, reason \in Reasons :
            rejectUser(actor, u, reason)
    \/ \E actor \in ApprovalActors : approveHospital(actor, "h1")
    \/ \E actor \in ApprovalActors, reason \in Reasons :
            rejectHospital(actor, "h1", reason)
    \/ \E actor \in ApprovalActors, status \in {"approved", "suspended"} :
            updateHospital(actor, "h1", status)

SpecApproval == Init /\ [][ApprovalNext]_vars

----------------------------------------------------------------------------
(* Approval of doctors: two hospitals register with their admins, a doctor of
   the first hospital and a doctor with an own clinic register, and
   approve-user / reject-user are called by the super admin and by either
   hospital's admin *)

DoctorApprovalNext ==
    \/ \E h \in HospitalIds : createHospital(Anonymous, h, Null, TRUE)
    \/ \E u \in {"d1", "d3"} : register(u, TRUE)
    \/ \E actor \in {"sa", "a1", "a2"}, u \in {"d1", "d3"} : approveUser(actor, u)
    \/ \E actor \in {"sa", "a1", "a2"}, u \in {"d1", "d3"} :
            rejectUser(actor, u, "incomplete documentation")

SpecDoctorApproval == Init /\ [][DoctorApprovalNext]_vars

----------------------------------------------------------------------------
(* Approval followed by the generic update handlers: a hospital registers
   with its admin, both are approved or rejected by the super admin, and
   updateUser / updateHospital are called with a body that carries the
   approval state *)

UserUpdates ==
    [approvalStatus : {Null, "pending", "approved"}, role : {Null, "patient"},
     setRole : {Null, "patient"}, isActive : {<<>>}]

TerminalNext ==
    \/ createHospital(Anonymous, "h1", Null, TRUE)
    \/ approveUser("sa", "a1")
    \/ \E reason \in Reasons : rejectUser("sa", "a1", reason)
    \/ approveHospital("sa", "h1")
    \/ \E reason \in Reasons : rejectHospital("sa", "h1", reason)
    \/ \E actor \in {"sa", "a1"}, body \in UserUpdates : updateUser(actor, "a1", body)
    \/ \E actor \in {"sa", "a1"}, status \in {Null, "pending", "suspended"} :
            updateHospital(actor, "h1", status)

SpecTerminal == Init /\ [][TerminalNext]_vars

----------------------------------------------------------------------------
(* Status updates: the seeded store, referrals created by the admin of hospital
   h1, and PATCH /:id/status called by the super admin and by the admins of
   both hospitals *)

StatusBodies ==
    [patientId : {"p1"}, receivingHospitalId : {"h1", "h2"},
     receivingDoctorId : {Null}, referringDoctorId : {Null},
     reason : {<<"a">>}, specialty : {<<"b">>}, chiefComplaint : {<<"A", "b">>},
     priority : {Null}, notes : {NoText}]

StatusInputs == {Null, "accepted", "in_progress", "archived"}

StatusNext ==
    \/ \E body \in StatusBodies, referralId \in GeneratedIds :
            createReferral("a1", body, referralId)
    \/ \E actor \in {"sa", "a1", "a2"}, id \in ReferralIds, status \in StatusInputs,
          notes \in {NoText, <<"n">>} :
            updateReferralStatus(actor, id, status, notes)

SpecReferralStatus == InitSeeded /\ [][StatusNext]_vars

----------------------------------------------------------------------------
(* Concurrent status updates: updateReferralStatus awaits Referral.findById
   and later referral.save(); two requests run these two steps in any
   interleaving *)

\* the document a save() of the whole local copy would store
savedFromLocalCopy(stored, call) ==
    [call.read EXCEPT
       !.status = call.status,
       !.timeline = timelinePush(@, timelineEntry(call.status, call.actor,
                       IF call.notes # NoText THEN call.notes
                       ELSE defaultNotes(call.status)))]

\* referral.save(): the update sent to the store carries the modified paths
\* (status; notes is no path of the schema) and the pushed timeline element, and is
\* applied to the stored document
savedReferral(stored, call) ==
    [stored EXCEPT
       !.status = call.status,
       !.timeline = timelinePush(@, timelineEntry(call.status, call.actor,
                       IF call.notes # NoText THEN call.notes
                       ELSE defaultNotes(call.status)))]

\* updateReferralStatus up to and including the permission check
beginStatusUpdate(k, actor, id, status, notes) ==
    LET user == users[actor]
        referral == referrals[id]
        call == [NoCall EXCEPT !.actor = actor, !.id = id, !.status = status,
                               !.notes = notes, !.read = referral]
        refused(code, msg) ==
            /\ Answer("updateReferralStatus", actor, id, code, msg, {}, {})
            /\ inFlight' = [inFlight EXCEPT ![k] =
                               [call EXCEPT !.pc = "done", !.code = code]]
    IN
    /\ inFlight[k].pc = "idle"
    /\ UNCHANGED <<users, hospitals, clinics, referrals>>
    /\ IF ~protect(actor) THEN refused(401, "auth")
       ELSE IF status = Null THEN refused(400, "status_required")
       ELSE IF status \notin validStatuses THEN refused(400, "invalid_status")
       ELSE IF ~referral.exists THEN refused(404, "not_found")
       ELSE IF /\ user.role = "hospital" /\ user.hospitalId # Null
               /\ referral.receivingHospital # user.hospitalId
       THEN refused(403, "not_receiving")
       ELSE /\ inFlight' = [inFlight EXCEPT ![k] = [call EXCEPT !.pc = "save"]]
            /\ UNCHANGED res

\* updateReferralStatus from referral.save() to the response
saveStatusUpdate(k) ==
    LET call == inFlight[k]
        \* validation runs on the local copy: the document read, with the
        \* assignments and the push applied
        local == savedReferral(call.read, call)
        finish(code) == inFlight' = [inFlight EXCEPT ![k] =
                                        [call EXCEPT !.pc = "done", !.code = code]]
    IN
    /\ call.pc = "save"
    /\ UNCHANGED <<users, hospitals, clinics>>
    /\ IF ~referralSaves(call.id, local)
       THEN /\ Answer("updateReferralStatus", call.actor, call.id, 500, "error",
                      {}, {})
            /\ finish(500)
            /\ UNCHANGED referrals
       ELSE /\ referrals' = [referrals EXCEPT ![call.id] =
                                savedReferral(referrals[call.id], call)]
            /\ Answer("updateReferralStatus", call.actor, call.id, 200, Null,
                      {call.id}, {})
            /\ finish(200)

ConcurrentStatusNext ==
    \/ \E body \in StatusBodies, referralId \in GeneratedIds :
            createReferral("a1", body, referralId)
    \/ \E k \in CallIds, actor \in {"sa", "a1", "a2"}, id \in ReferralIds,
          status \in {Null, "accepted", "completed", "in_progress"},
          notes \in {NoText, <<"n">>} :
            beginStatusUpdate(k, actor, id, status, notes)
    \/ \E k \in CallIds : saveStatusUpdate(k)

SpecConcurrentStatus == InitSeeded /\ [][ConcurrentStatusNext]_vars

----------------------------------------------------------------------------
(* Rejections: a hospital registers with its admin, a doctor with an own
   clinic registers, and the super admin rejects them with a reason that is
   missing, empty, shorter than ten characters or long enough *)

RejectReasons == {Null, Empty, "too short", "incomplete documentation"}

RejectNext ==
    \/ createHospital(Anonymous, "h1", Null, TRUE)
    \/ register("d3", TRUE)
    \/ \E u \in {"a1", "d3"}, reason \in RejectReasons : rejectUser("sa", u, reason)
    \/ \E reason \in RejectReasons : rejectHospital("sa", "h1", reason)

SpecReject == Init /\ [][RejectNext]_vars

----------------------------------------------------------------------------
(* Creation of doctors: a hospital registers with its admin; doctors are
   created through public registration and through POST /api/doctors, and
   the creation of the clinic may fail *)

ClinicNext ==
    \/ createHospital(Anonymous, "h1", Null, TRUE)
    \/ \E u \in {"d1", "d3"}, clinicOk \in BOOLEAN : register(u, clinicOk)
    \/ \E actor \in {"sa", "a1", "d1"}, u \in {"d1", "d3"}, clinicOk \in BOOLEAN :
            createDoctor(actor, u, clinicOk)

SpecClinic == Init /\ [][ClinicNext]_vars

----------------------------------------------------------------------------
(* The referring doctor a hospital admin gets by default: the seeded store,
   a second doctor who registers at hospital h1 and is approved, doctors
   whose approval the super admin takes back, and referrals created by the
   hospital admins without a referringDoctorId *)

DefaultDoctorBodies ==
    [patientId : {"p1"}, receivingHospitalId : {"h1", "h2"},
     receivingDoctorId : {Null}, referringDoctorId : {Null},
     reason : {<<"a">>}, specialty : {<<"b">>}, chiefComplaint : {<<"A", "b">>},
     priority : {Null}, notes : {NoText}]

DefaultDoctorNext ==
    \/ register("d4", TRUE)
    \/ approveUser("sa", "d4")
    \/ \E id \in {"d1", "d4"}, approvalStatus \in {"pending", "approved"} :
            updateUser("sa", id, [approvalStatus |-> approvalStatus,
                                  role |-> Null, setRole |-> Null,
                                  isActive |-> <<>>])
    \/ \E actor \in {"a1", "a2"}, body \in DefaultDoctorBodies,
          referralId \in GeneratedIds :
            createReferral(actor, body, referralId)

SpecDefaultDoctor == InitSeeded /\ [][DefaultDoctorNext]_vars

----------------------------------------------------------------------------
(* The receiving doctor of a Referral: the seeded store, referrals created
   by the admin of hospital h1 with and without a receiving doctor, and
   updates that send a receiving doctor, a receiving hospital or both *)

ReceivingBodies ==
    [patientId : {"p1", "p2"}, receivingHospitalId : {"h1", "h2"},
     receivingDoctorId : {Null, "d2"}, referringDoctorId : {Null},
     reason : {<<"a">>}, specialty : {<<"b">>}, chiefComplaint : {<<"A", "b">>},
     priority : {Null}, notes : {NoText}]

ReceivingUpdates ==
    {[NoUpdate EXCEPT !.receivingDoctorId = d, !.receivingHospitalId = h] :
        d \in {Null, "d1", "d2", "d3"}, h \in {Null, "h1", "h2"}}

ReceivingNext ==
    \/ \E body \in ReceivingBodies, referralId \in GeneratedIds :
            createReferral("a1", body, referralId)
    \/ \E actor \in {"a1", "a2"}, id \in ReferralIds,
          updateData \in ReceivingUpdates :
            updateReferral(actor, id, updateData)

SpecReceiving == InitSeeded /\ [][ReceivingNext]_vars

----------------------------------------------------------------------------
(* Searching referrals: the seeded store, referrals created by the doctors
   of the two hospitals, and the two listings called with and without a
   search *)

SearchBodies ==
    [patientId : {"p1"}, receivingHospitalId : {"h1", "h2"},
     receivingDoctorId : {Null, "d1"}, referringDoctorId : {Null},
     reason : {<<"a">>}, specialty : {<<"b">>}, chiefComplaint : {<<"A", "b">>},
     priority : {Null}, notes : {NoText}]

Searches == {<<"a">>, <<"r", "e", "f">>, <<"z">>}

SearchQueries ==
    {[NoQuery EXCEPT !.search = s, !.status = st] :
        s \in Searches \cup {NoText}, st \in {Null, "pending"}}

SearchNext ==
    \/ \E actor \in {"d1", "d2"}, body \in SearchBodies, referralId \in GeneratedIds :
            createReferral(actor, body, referralId)
    \/ \E actor \in {"sa", "a1", "d1"}, q \in SearchQueries : getReferrals(actor, q)
    \/ \E actor \in {"sa", "a1", "d1"}, id \in {"d1", "d2", "p1"},
          q \in SearchQueries :
            getDoctorReferrals(actor, id, q)

SpecSearch == InitSeeded /\ [][SearchNext]_vars

----------------------------------------------------------------------------
(* Existence of a Referral seen by callers without permission: the seeded
   store, referrals created by doctor d2 of hospital h2, and the three
   handlers that load a Referral by id, called by accounts of hospital h1
   and by patients *)

ExistenceBodies ==
    [patientId : {"p1", "p2"}, receivingHospitalId : {"h1", "h2"},
     receivingDoctorId : {Null}, referringDoctorId : {Null},
     reason : {<<"a">>}, specialty : {<<"b">>}, chiefComplaint : {<<"A", "b">>},
     priority : {Null}, notes : {NoText}]

ExistenceNext ==
    \/ \E body \in ExistenceBodies, referralId \in GeneratedIds :
            createReferral("d2", body, referralId)
    \/ \E actor \in {"a1", "d1", "p2"}, id \in ReferralIds : getReferralById(actor, id)
    \/ \E actor \in {"a1", "d1"}, id \in ReferralIds :
            updateReferral(actor, id, [NoUpdate EXCEPT !.notes = <<"n">>])
    \/ \E actor \in {"a1", "d1"}, id \in ReferralIds :
            updateReferralStatus(actor, id, "accepted", NoText)

SpecExistence == InitSeeded /\ [][ExistenceNext]_vars

----------------------------------------------------------------------------
(* Doctors seen by hospital admins: the seeded store, a doctor who
   registers at hospital h1 and is approved or not, a clinic doctor whose
   approval the super admin takes back, and the doctor listing and the
   single-doctor read called by the admins of both hospitals *)

DoctorQueries ==
    [hospitalId : {Null, "h1", "h2"}, status : {Null, "pending", "active"}]

DoctorViewNext ==
    \/ register("d4", TRUE)
    \/ approveUser("sa", "d4")
    \/ \E approvalStatus \in {"pending", "approved"} :
            updateUser("sa", "d3", [approvalStatus |-> approvalStatus,
                                    role |-> Null, setRole |-> Null,
                                  isActive |-> <<>>])
    \/ \E actor \in {"a1", "a2", "p1"}, q \in DoctorQueries : getDoctors(actor, q)
    \/ \E actor \in {"a1", "a2", "p1"}, id \in {"d1", "d3", "d4", "p2"} :
            getDoctorById(actor, id)

SpecDoctorView == InitSeeded /\ [][DoctorViewNext]_vars

----------------------------------------------------------------------------
(* Managing Accounts and Hospitals from the store that holds the super
   admin: an Account registers with the e-mail a Hospital will use, the
   Hospital registers with or without its admin, and the super admin and
   the hospital's admin call the user-management routes and deleteHospital *)

ManagementUpdates ==
    [approvalStatus : {Null}, role : {Null}, setRole : {Null},
     isActive : {<<FALSE>>, <<TRUE>>}]

ManagementNext ==
    \/ register("a1", TRUE)
    \/ \E withAdmin \in BOOLEAN : createHospital(Anonymous, "h1", Null, withAdmin)
    \/ \E actor \in {"sa", "a1"}, id \in {"sa", "a1"} : deleteUser(actor, id)
    \/ \E actor \in {"sa", "a1"}, id \in {"sa", "a1"} : toggleUserStatus(actor, id)
    \/ \E id \in {"sa", "a1"}, body \in ManagementUpdates : updateUser("sa", id, body)
    \/ \E actor \in {"sa", "a1"}, deleteUsers \in BOOLEAN :
            deleteHospital(actor, "h1", deleteUsers)

SpecManagement == Init /\ [][ManagementNext]_vars

----------------------------------------------------------------------------
(* Password reset requests: Accounts register, and reset links are asked
   for e-mails that belong to an Account and for e-mails that do not *)

ResetTokens == {"token1", "token2"}

ForgotNext ==
    \/ \E u \in {"p1", "d1"} : register(u, TRUE)
    \/ \E email \in {Null, UserEmail("p1"), UserEmail("d1"), UserEmail("p2")},
          resetToken \in ResetTokens, delivered \in BOOLEAN :
            forgotPassword(email, resetToken, delivered)

SpecForgot == Init /\ [][ForgotNext]_vars

----------------------------------------------------------------------------
(* Properties.  In an action formula res' is the response of the request
   that made the step; users, hospitals and referrals are the store before
   the request and the primed variables the store after it. *)

\* C1: a Hospital's status leaves pending only through a request made by a
\* super_admin: whenever a step takes a stored Hospital out of pending, the
\* actor of the request is an Account with role super_admin.
C1_PendingHospitalLeftOnlyBySuperAdmin ==
    [][\A h \in HospitalIds :
          (/\ hospitals[h].exists
           /\ hospitals[h].status = "pending"
           /\ hospitals'[h].status # "pending")
          => (res'.actor \in UserIds /\ users[res'.actor].role = "super_admin")]_vars

\* the pending admin of a pending hospital has approved its own Account and
\* the cascade has approved the hospital in its name
C1_HospitalApprovedByItsOwnAdmin ==
    /\ res.op = "approveUser" /\ res.code = 200
    /\ res.actor = "a1" /\ res.target = "a1"
    /\ hospitals["h1"].status = "approved"
    /\ hospitals["h1"].approvedBy = "a1"

\* C2: approveUser and rejectUser on a pending doctor succeed only for the
\* doctor's designated authority: a super_admin, or, for a doctor with
\* practiceType hospital, a hospital admin whose hospitalId is the doctor's.
C2_DoctorDecidedOnlyByDesignatedAuthority ==
    [][(/\ res'.op \in {"approveUser", "rejectUser"}
        /\ res'.code = 200
        /\ users[res'.target].role = "doctor"
        /\ users[res'.target].approvalStatus = "pending")
       => \/ users[res'.actor].role = "super_admin"
          \/ /\ users[res'.target].practiceType = "hospital"
             /\ users[res'.actor].role = "hospital"
             /\ users[res'.actor].hospitalId = users[res'.target].hospitalId]_vars

\* the admin of hospital h2 has approved a doctor of hospital h1
C2_DoctorApprovedByOtherHospital ==
    /\ res.op = "approveUser" /\ res.code = 200
    /\ res.actor = "a2" /\ res.target = "d1"
    /\ users["a2"].hospitalId = "h2" /\ users["d1"].hospitalId = "h1"
    /\ users["d1"].approvalStatus = "approved"

\* C3: no referral request succeeds for a doctor who is not usable, that is
\* whose approvalStatus is not approved or, with practiceType hospital, whose
\* Hospital is not approved at the time of the request.
C3_UnusableDoctorRefused ==
    [][(/\ res'.op \in {"createReferral", "updateReferral", "updateReferralStatus",
                        "getReferrals", "getReferralById"}
        /\ res'.actor \in UserIds
        /\ users[res'.actor].role = "doctor"
        /\ res'.code \in {200, 201})
       => checkApprovalStatus(res'.actor)]_vars

\* a doctor whose Account is still pending has created a referral
C3_PendingDoctorCreatedReferral ==
    /\ res.op = "createReferral" /\ res.code = 201 /\ res.actor = "d4"
    /\ users["d4"].approvalStatus = "pending"
    /\ referrals[res.target].referringDoctor = "d4"

\* C4: updateReferralStatus changes the status or the timeline of a Referral
\* only when the actor is a super_admin or a user whose hospitalId is the
\* Referral's receivingHospital.
C4_StatusChangedOnlyByReceivingHospital ==
    [][\A r \in ReferralIds :
          (/\ res'.op = "updateReferralStatus"
           /\ referrals[r].exists
           /\ \/ referrals'[r].status # referrals[r].status
              \/ referrals'[r].timeline # referrals[r].timeline)
          => \/ users[res'.actor].role = "super_admin"
             \/ users[res'.actor].hospitalId = referrals[r].receivingHospital]_vars

\* a hospital-role Account without hospitalId has accepted a referral
C4_StatusChangedWithoutHospital ==
    /\ res.op = "updateReferralStatus" /\ res.code = 200 /\ res.actor = "a3"
    /\ users["a3"].hospitalId = Null
    /\ referrals[res.target].status = "accepted"

\* C5: every referral getReferrals returns to a patient has that patient as
\* its patient, whatever filters the query string carries.
C5_PatientListsOnlyOwnReferrals ==
    [][(/\ res'.op = "getReferrals"
        /\ res'.actor \in UserIds
        /\ users[res'.actor].role = "patient")
       => \A r \in res'.data : referrals[r].patient = res'.actor]_vars

\* patient p2 has been returned a referral of patient p1
C5_PatientListedAnothersReferral ==
    /\ res.op = "getReferrals" /\ res.code = 200 /\ res.actor = "p2"
    /\ \E r \in res.data : referrals[r].patient = "p1"

\* C6: a patient has read-only access: no updateReferral or
\* updateReferralStatus request made by a patient changes any Referral.
C6_PatientCannotWriteReferrals ==
    [][(/\ res'.op \in {"updateReferral", "updateReferralStatus"}
        /\ res'.actor \in UserIds
        /\ users[res'.actor].role = "patient")
       => referrals' = referrals]_vars

\* patient p1 has rewritten the reason of a referral
C6_PatientUpdatedReferral ==
    /\ res.op = "updateReferral" /\ res.code = 200 /\ res.actor = "p1"
    /\ referrals[res.target].reason = <<"n">>

\* C7: every referral getReferrals or getReferralById returns to an Account
\* with role hospital has that Account's hospitalId as referringHospital or
\* receivingHospital; this includes an Account registered without hospitalId.
C7_HospitalAdminSeesOnlyOwnHospital ==
    [][(/\ res'.op \in {"getReferrals", "getReferralById"}
        /\ res'.actor \in UserIds
        /\ users[res'.actor].role = "hospital")
       => \A r \in res'.data :
             \/ referrals[r].referringHospital = users[res'.actor].hospitalId
             \/ referrals[r].receivingHospital = users[res'.actor].hospitalId]_vars

\* the hospital-role Account registered without hospitalId has been returned
\* a referral
C7_UnscopedAdminSeesReferral ==
    /\ res.op \in {"getReferrals", "getReferralById"} /\ res.code = 200
    /\ res.actor = "a3" /\ users["a3"].hospitalId = Null
    /\ res.data # {}

\* C8: getReferralById by an authenticated doctor on a stored Referral whose
\* referringDoctor and receivingDoctor are both different from the actor
\* answers 403 and returns no referral.
C8_NonPartyDoctorDenied ==
    [][(/\ res'.op = "getReferralById"
        /\ protect(res'.actor)
        /\ users[res'.actor].role = "doctor"
        /\ referrals[res'.target].exists
        /\ referrals[res'.target].referringDoctor # res'.actor
        /\ referrals[res'.target].receivingDoctor # res'.actor)
       => (res'.code = 403 /\ res'.data = {})]_vars

\* a doctor has asked for a stored referral of which they are no party, one
\* that names no receiving doctor, and has been refused
C8_DoctorRefusedOnForeignReferral ==
    /\ res.op = "getReferralById" /\ res.code = 403 /\ res.data = {}
    /\ users[res.actor].role = "doctor"
    /\ referrals[res.target].exists
    /\ referrals[res.target].referringDoctor # res.actor
    /\ referrals[res.target].receivingDoctor = Null

\* C9: an approve or reject request that reaches its handler for a stored
\* entity that is not pending answers 400, leaves every Account and every
\* Hospital as it was (no status, approvedBy, approvedAt or rejectionReason
\* is written and nothing cascades) and sends no mail; the message is the
\* not-pending one unless the reject request carries no reason.
C9_NonPendingRefusedWithoutEffect ==
    [][/\ (/\ res'.op \in {"approveUser", "rejectUser"}
           /\ protect(res'.actor)
           /\ authorize(res'.actor, {"super_admin", "hospital"})
           /\ users[res'.target].exists
           /\ users[res'.target].approvalStatus # "pending")
          => /\ res'.code = 400
             /\ res'.msg \in {"not_pending", "reason_required"}
             /\ res'.op = "approveUser" => res'.msg = "not_pending"
             /\ users' = users /\ hospitals' = hospitals
             /\ res'.mail = {}
       /\ (/\ res'.op \in {"approveHospital", "rejectHospital"}
           /\ protect(res'.actor)
           /\ authorize(res'.actor, {"super_admin"})
           /\ hospitals[res'.target].exists
           /\ hospitals[res'.target].status # "pending")
          => /\ res'.code = 400
             /\ res'.msg \in {"not_pending", "reason_required"}
             /\ res'.op = "approveHospital" => res'.msg = "not_pending"
             /\ users' = users /\ hospitals' = hospitals
             /\ res'.mail = {}]_vars

\* approve-user was refused for a rejected hospital admin whose Hospital is
\* still pending: the cascade had a Hospital to approve and left it alone
C9_RejectedAdminNotReapproved ==
    /\ res.op = "approveUser" /\ res.code = 400 /\ res.msg = "not_pending"
    /\ res.target = "a1"
    /\ users["a1"].approvalStatus = "rejected"
    /\ hospitals["h1"].exists /\ hospitals["h1"].status = "pending"

\* C10: the approval state is terminal: an Account's approvalStatus, or a
\* Hospital's status, that is approved or rejected is the same after every
\* request.
C10_ApprovalStateTerminal ==
    [][/\ \A u \in UserIds :
             (users[u].exists /\ users[u].approvalStatus \in {"approved", "rejected"})
             => users'[u].approvalStatus = users[u].approvalStatus
       /\ \A h \in HospitalIds :
             (hospitals[h].exists /\ hospitals[h].status \in {"approved", "rejected"})
             => hospitals'[h].status = hospitals[h].status]_vars

\* an Account that had been decided (approvedBy is set) is pending again
C10_DecidedAccountPendingAgain ==
    /\ users["a1"].exists
    /\ users["a1"].approvalStatus = "pending"
    /\ users["a1"].approvedBy # Null

\* C11: a successful updateReferralStatus appends exactly one entry at the
\* end of the Referral's timeline, keeps the earlier entries as they were,
\* and stores the new status in the same step: the appended entry carries
\* the notes of the request, or the text built from the status that is
\* stored with it; no other field and no other Referral changes.  A call
\* that fails changes no Referral.
C11_StatusAndTimelineWrittenTogether ==
    [][res'.op = "updateReferralStatus"
       => IF res'.code = 200
          THEN LET old == referrals[res'.target]
                   new == referrals'[res'.target]
                   last == new.timeline[Len(new.timeline)]
               IN
               /\ Len(new.timeline) = Len(old.timeline) + 1
               /\ SubSeq(new.timeline, 1, Len(old.timeline)) = old.timeline
               /\ new.status \in ReferralStatusEnum
               /\ last.notes \in {<<"n">>, <<"Status changed to ", new.status>>}
               /\ new = [old EXCEPT !.status = new.status,
                                    !.timeline = new.timeline]
               /\ \A r \in ReferralIds \ {res'.target} :
                     referrals'[r] = referrals[r]
          ELSE referrals' = referrals]_vars

\* a second status update has succeeded on a Referral: its timeline holds
\* two entries
C11_SecondEntryAppended ==
    /\ res.op = "updateReferralStatus" /\ res.code = 200
    /\ Len(referrals[res.target].timeline) = 2
    /\ referrals[res.target].status = "accepted"

C13_ApproveHospitalCascade ==
    [][(res'.op = "approveHospital" /\ res'.code = 200)
       => LET h == res'.target IN
          /\ hospitals[h].status = "pending"
          /\ hospitals'[h] = [hospitals[h] EXCEPT !.status = "approved",
                                                  !.approvedBy = res'.actor,
                                                  !.approvedAt = Now]
          /\ \A g \in HospitalIds \ {h} : hospitals'[g] = hospitals[g]
          /\ \A u \in UserIds :
                IF /\ users[u].exists /\ users[u].role = "hospital"
                   /\ users[u].email = hospitals[h].email
                   /\ users[u].approvalStatus = "pending"
                THEN /\ users'[u] = [users[u] EXCEPT !.approvalStatus = "approved",
                                                     !.approvedBy = res'.actor,
                                                     !.approvedAt = Now]
                     /\ users'[u].approvedBy = hospitals'[h].approvedBy
                ELSE users'[u] = users[u]]_vars

\* approveHospital has approved h1 and with it the pending admin a1
C13_AdminApprovedWithHospital ==
    /\ res.op = "approveHospital" /\ res.code = 200 /\ res.target = "h1"
    /\ hospitals["h1"].status = "approved"
    /\ users["a1"].exists /\ users["a1"].approvalStatus = "approved"
    /\ users["a1"].approvedBy = hospitals["h1"].approvedBy

\* C14: rejectUser and rejectHospital succeed only with a reason of at least
\* 10 and at most 500 characters: after a successful call the stored
\* rejectionReason has such a length.
C14_RejectionNeedsReasonOfTenCharacters ==
    [][/\ (res'.op = "rejectUser" /\ res'.code = 200)
          => /\ Len(users'[res'.target].rejectionReason) >= 10
             /\ Len(users'[res'.target].rejectionReason) <= 500
       /\ (res'.op = "rejectHospital" /\ res'.code = 200)
          => /\ Len(hospitals'[res'.target].rejectionReason) >= 10
             /\ Len(hospitals'[res'.target].rejectionReason) <= 500]_vars

\* a Hospital has been rejected with a reason of nine characters
C14_RejectedWithShortReason ==
    /\ res.op = "rejectHospital" /\ res.code = 200
    /\ hospitals[res.target].status = "rejected"
    /\ hospitals[res.target].rejectionReason = "too short"

\* C15: the role of an Account never changes: every stored Account has the
\* same role after every request.
C15_RoleNeverChanges ==
    [][\A u \in UserIds :
          (users[u].exists /\ users'[u].exists) => users'[u].role = users[u].role]_vars

\* the hospital admin created with hospital h1 has become a patient
C15_RoleChangedThroughSetOperator ==
    /\ res.op = "updateUser" /\ res.code = 200 /\ res.target = "a1"
    /\ users["a1"].role = "patient"
    /\ users["a1"].hospitalId = "h1"

\* C16: every creation of a doctor with practiceType own_clinic, by register
\* or by createDoctor, that succeeds leaves exactly one Clinic whose ownerId
\* is the doctor and the doctor's clinicId is that Clinic; one that does not
\* succeed leaves no Account with the doctor's e-mail.
C16_OwnClinicDoctorCreatedWithClinicOrNotAtAll ==
    [][\A u \in UserIds :
          (/\ res'.op \in {"register", "createDoctor"}
           /\ res'.target = u
           /\ RegisterBody(u).role = "doctor"
           /\ RegisterBody(u).practiceType = "own_clinic"
           /\ ~users[u].exists)
          => IF res'.code = 201
             THEN /\ users'[u].exists
                  /\ users'[u].clinicId \in ClinicIds
                  /\ {c \in ClinicIds : clinics'[c].exists /\ clinics'[c].ownerId = u}
                        = {users'[u].clinicId}
             ELSE \A v \in UserIds :
                     ~(users'[v].exists /\ users'[v].email = UserEmail(u))]_vars

\* createDoctor has failed at the clinic and the doctor's Account is stored
\* without a clinic
C16_DoctorLeftWithoutClinic ==
    /\ res.op = "createDoctor" /\ res.code = 500 /\ res.target = "d3"
    /\ users["d3"].exists /\ users["d3"].practiceType = "own_clinic"
    /\ users["d3"].clinicId = Null
    /\ ~clinics["c3"].exists

\* C17: createReferral by a hospital admin without a referringDoctorId,
\* whose other fields pass the checks, stores the Referral with the
\* earliest-created approved, active doctor of the admin's hospital as
\* referringDoctor; when the hospital has no such doctor the call answers
\* 400 and no Referral is created.  (With such a doctor the call is not
\* answered 400; it creates nothing when the save fails on a referralId
\* that is already stored.)
C17_DefaultReferringDoctorIsEarliestApproved ==
    [][\A a \in {"a1", "a2"} :
          (res'.op = "createReferral" /\ res'.actor = a)
          => LET eligible ==
                   {d \in UserIds : /\ users[d].exists /\ users[d].role = "doctor"
                                    /\ users[d].hospitalId = users[a].hospitalId
                                    /\ users[d].approvalStatus = "approved"
                                    /\ users[d].isActive}
             IN
             IF eligible = {}
             THEN res'.code = 400 /\ referrals' = referrals
             ELSE IF res'.code = 201
             THEN /\ referrals'[res'.target].exists
                  /\ ~referrals[res'.target].exists
                  /\ referrals'[res'.target].referringDoctor \in eligible
                  /\ \A e \in eligible :
                        users[referrals'[res'.target].referringDoctor].createdAt
                           <= users[e].createdAt
                  /\ referrals'[res'.target].referringHospital = users[a].hospitalId
             ELSE res'.code = 500 /\ referrals' = referrals]_vars

\* two approved doctors at hospital h1, and the admin's Referral names the
\* one created first
C17_EarlierOfTwoDoctorsChosen ==
    /\ res.op = "createReferral" /\ res.actor = "a1" /\ res.code = 201
    /\ users["d4"].approvalStatus = "approved" /\ users["d4"].hospitalId = "h1"
    /\ users["d1"].approvalStatus = "approved"
    /\ users["d1"].createdAt < users["d4"].createdAt
    /\ referrals[res.target].referringDoctor = "d1"

\* the actor passes updateReferral's checks on the caller and the Referral
\* exists
mayUpdate(actor, id) ==
    /\ referrals[id].exists
    /\ ~(/\ users[actor].role = "hospital" /\ users[actor].hospitalId # Null
         /\ referrals[id].referringHospital # users[actor].hospitalId
         /\ referrals[id].receivingHospital # users[actor].hospitalId)

\* C18: updateReferral that sends as receivingDoctorId a doctor whose
\* hospitalId is not the receiving hospital the Referral would have after
\* the update (the one sent, or the stored one when none is sent) answers
\* 400 'Receiving doctor must belong to the receiving hospital' and leaves
\* every stored Referral as it was.
C18_ReceivingDoctorMustBelongToReceivingHospital ==
    [][\A actor \in {"a1", "a2"}, id \in ReferralIds,
          d \in {"d1", "d2"}, h \in {Null, "h1", "h2"} :
          (/\ updateReferral(actor, id, [NoUpdate EXCEPT !.receivingDoctorId = d,
                                                         !.receivingHospitalId = h])
           /\ mayUpdate(actor, id)
           /\ users[d].role = "doctor" /\ users[d].hospitalId # Null
           /\ users[d].hospitalId #
                 (IF h # Null THEN h ELSE referrals[id].receivingHospital))
          => /\ res'.code = 400 /\ res'.msg = "doctor_not_in_hospital"
             /\ referrals' = referrals]_vars

\* a Referral to hospital h2 without a receiving doctor, and an update of it
\* that was refused for the doctor's hospital
C18_DoctorOfOtherHospitalRefused ==
    /\ res.op = "updateReferral" /\ res.code = 400
    /\ res.msg = "doctor_not_in_hospital"
    /\ referrals[res.target].exists
    /\ referrals[res.target].receivingHospital = "h2"
    /\ referrals[res.target].receivingDoctor = Null

\* C19: updateReferral that sends a new receiving hospital for a Referral
\* whose stored receiving doctor belongs to another hospital than the new
\* one answers 200, stores the new receiving hospital and sets
\* receivingDoctor to null.
C19_HospitalChangeClearsForeignDoctor ==
    [][\A actor \in {"a1", "a2"}, id \in ReferralIds, h \in HospitalIds :
          (/\ updateReferral(actor, id, [NoUpdate EXCEPT !.receivingHospitalId = h])
           /\ mayUpdate(actor, id)
           /\ h # referrals[id].receivingHospital
           /\ referrals[id].receivingDoctor \in UserIds
           /\ users[referrals[id].receivingDoctor].role = "doctor"
           /\ users[referrals[id].receivingDoctor].hospitalId # Null
           /\ users[referrals[id].receivingDoctor].hospitalId # h)
          => /\ res'.code = 200
             /\ referrals'[id].receivingHospital = h
             /\ referrals'[id].receivingDoctor = Null]_vars

\* a Referral to hospital h2 with receiving doctor d2 of that hospital is
\* still stored so after an update of it was refused for the doctor's
\* hospital
C19_HospitalChangeRefused ==
    /\ res.op = "updateReferral" /\ res.code = 400
    /\ res.msg = "doctor_not_in_hospital"
    /\ referrals[res.target].exists
    /\ referrals[res.target].receivingHospital = "h2"
    /\ referrals[res.target].receivingDoctor = "d2"

\* C20: in every state, for every Account and every query, each listing
\* called with a search finds a subset of what it finds for the same query
\* without the search: getReferrals for every actor, getDoctorReferrals for
\* every doctor whose referrals are listed.
C20_SearchNeverWidensScope ==
    \A q \in SearchQueries :
       LET unsearched == [q EXCEPT !.search = NoText] IN
       /\ \A actor \in UserIds :
             users[actor].exists
             => referralsFound(actor, q) \subseteq referralsFound(actor, unsearched)
       /\ \A id \in UserIds :
             (users[id].exists /\ users[id].role = "doctor")
             => doctorReferralsFound(id, q) \subseteq doctorReferralsFound(id, unsearched)

\* doctor d1 has listed their referrals and the answer holds a Referral of
\* which d1 is neither the referring nor the receiving doctor
C20_DoctorListingHoldsForeignReferral ==
    /\ res.op = "getDoctorReferrals" /\ res.code = 200
    /\ res.actor = "d1" /\ res.target = "d1"
    /\ \E r \in res.data : /\ referrals[r].referringDoctor = "d2"
                           /\ referrals[r].receivingDoctor = Null

\* C21: an Account that getReferralById, updateReferral or
\* updateReferralStatus refuses (403) on a stored Referral gets the same
\* answer from that handler when the id resolves to nothing.
C21_DeniedActorCannotTellExistence ==
    \A actor \in UserIds, id \in ReferralIds :
       (users[actor].exists /\ referrals[id].exists)
       => /\ getReferralByIdAccess(actor, referrals[id]) = 403
             => getReferralByIdAccess(actor, NoReferral) = 403
          /\ updateReferralAccess(actor, referrals[id]) = 403
             => updateReferralAccess(actor, NoReferral) = 403
          /\ updateReferralStatusAccess(actor, referrals[id]) = 403
             => updateReferralStatusAccess(actor, NoReferral) = 403

\* the admin of hospital h1 has been refused a Referral that hospital h1 is
\* no party of, where a missing Referral is answered 404
C21_DeniedOnStoredReferral ==
    /\ res.op = "getReferralById" /\ res.actor = "a1" /\ res.code = 403
    /\ referrals[res.target].exists
    /\ referrals[res.target].receivingHospital = "h2"
    /\ getReferralByIdAccess("a1", NoReferral) = 404

\* C22: approveUser, rejectUser, approveHospital and rejectHospital, when
\* they succeed, call sendEmail exactly once, with the address of the
\* Account or Hospital that was decided (for a Hospital: its own address or
\* that of its admin Account); when they fail they call it not at all.  The
\* address is read from the decided document, after the transition.
C22_OneNotificationPerDecision ==
    [][res'.op \in {"approveUser", "rejectUser", "approveHospital", "rejectHospital"}
       => IF res'.code = 200
          THEN /\ Cardinality(res'.mail) = 1
               /\ IF res'.op \in {"approveUser", "rejectUser"}
                  THEN res'.mail = {users'[res'.target].email}
                  ELSE res'.mail \subseteq
                          {hospitals'[res'.target].email} \cup
                          {users'[u].email : u \in hospitalUserOfAnyStatus(
                                                      hospitals[res'.target].email)}
          ELSE res'.mail = {}]_vars

\* a Hospital has been rejected and sendEmail was not called
C22_HospitalRejectedWithoutNotification ==
    /\ res.op = "rejectHospital" /\ res.code = 200 /\ res.mail = {}
    /\ hospitals[res.target].status = "rejected"
    /\ hospitals[res.target].rejectionReason = "incomplete documentation"

C24_TimelineEntryRecordsStatusAndActor ==
    [][(res'.op = "updateReferralStatus" /\ res'.code = 200)
       => LET new == referrals'[res'.target]
              last == new.timeline[Len(new.timeline)]
          IN
          /\ last.action = new.status
          /\ last.performedBy = res'.actor
          /\ last.notes \in {<<"n">>, <<"Status changed to ", new.status>>}]_vars

\* a status update with notes has succeeded and the stored entry names
\* neither a status nor an Account
C24_EntryWithoutStatusAndActor ==
    /\ res.op = "updateReferralStatus" /\ res.code = 200 /\ res.actor = "a1"
    /\ referrals[res.target].status = "accepted"
    /\ LET timeline == referrals[res.target].timeline IN
       /\ Len(timeline) = 1
       /\ timeline[1].action = Null /\ timeline[1].performedBy = Null
       /\ timeline[1].notes = <<"n">>

\* C25: updateReferralStatus, called on a stored Referral by an Account
\* that passes its permission check, answers 200 and stores the requested
\* status for each of pending, accepted, rejected, in_progress, completed
\* and cancelled, and answers 400 without changing any Referral for every
\* other value.
C25_SixStatusValuesAccepted ==
    [][\A actor \in {"sa", "a1", "a2"}, id \in ReferralIds,
          status \in StatusInputs \ {Null}, notes \in {NoText, <<"n">>} :
          (/\ updateReferralStatus(actor, id, status, notes)
           /\ updateReferralStatusAccess(actor, referrals[id]) = 200)
          => IF status \in {"pending", "accepted", "rejected", "in_progress",
                            "completed", "cancelled"}
             THEN res'.code = 200 /\ referrals'[id].status = status
             ELSE res'.code = 400 /\ referrals' = referrals]_vars

\* a status update on a stored Referral by the admin of its receiving
\* hospital has failed at the save, and the Referral is as it was
C25_StatusRefusedBySchema ==
    /\ res.op = "updateReferralStatus" /\ res.code = 500 /\ res.msg = "error"
    /\ referrals[res.target].exists
    /\ users[res.actor].hospitalId = referrals[res.target].receivingHospital
    /\ referrals[res.target].status = "pending"
    /\ referrals[res.target].timeline = <<>>

\* C26: every doctor that getDoctors or getDoctorById returns to an Account
\* with role hospital, and whose hospitalId is not that Account's hospitalId
\* (a doctor of another hospital or of a clinic), has approvalStatus
\* approved.
C26_ForeignDoctorsShownOnlyIfApproved ==
    [][(/\ res'.op \in {"getDoctors", "getDoctorById"}
        /\ res'.code = 200
        /\ users[res'.actor].role = "hospital")
       => \A d \in res'.data :
             users[d].hospitalId # users[res'.actor].hospitalId
             => users[d].approvalStatus = "approved"]_vars

\* the admin of hospital h2 has listed doctors and the answer holds the
\* pending doctor d4 of hospital h1
C26_PendingDoctorOfOtherHospitalListed ==
    /\ res.op = "getDoctors" /\ res.code = 200 /\ res.actor = "a2"
    /\ "d4" \in res.data
    /\ users["d4"].approvalStatus = "pending" /\ users["d4"].hospitalId = "h1"
    /\ users["a2"].hospitalId = "h2"

\* an Account with role hospital whose hospitalId names a stored Hospital
ownsHospital(u) ==
    /\ users[u].exists /\ users[u].role = "hospital"
    /\ users[u].hospitalId \in HospitalIds
    /\ hospitals[users[u].hospitalId].exists

\* C27: an Account that owns a Hospital leaves the store only in a step of
\* deleteHospital called on its Hospital with deleteUsers = true: deleteUser
\* on it is refused, and deleteHospital without deleteUsers on a Hospital
\* that has associated users deletes neither the Hospital nor an Account.
C27_HospitalOwnerDeletedOnlyByConfirmedCascade ==
    [][/\ \A u \in UserIds :
             (ownsHospital(u) /\ ~users'[u].exists)
             => \E actor \in UserIds : deleteHospital(actor, users[u].hospitalId, TRUE)
       /\ \A actor \in UserIds, u \in UserIds :
             (deleteUser(actor, u) /\ ownsHospital(u))
             => res'.code # 200 /\ users' = users
       /\ \A actor \in UserIds, h \in HospitalIds :
             (deleteHospital(actor, h, FALSE) /\ associatedUsers(h) # {})
             => res'.code # 200 /\ users' = users /\ hospitals' = hospitals]_vars

\* deleteUser has deleted the admin Account of Hospital h1, which is still
\* stored
C27_HospitalAdminDeletedByDeleteUser ==
    /\ res.op = "deleteUser" /\ res.code = 200 /\ res.target = "a1"
    /\ ~users["a1"].exists
    /\ hospitals["h1"].exists

\* C28: the seeded super admin Account, which is active, is stored and
\* active in every state the user-management routes and deleteHospital can
\* reach.
C28_ActiveSuperAdminStaysActive ==
    /\ users["sa"].exists
    /\ users["sa"].role = "super_admin"
    /\ users["sa"].isActive

\* updateUser has switched the super admin's isActive off
C28_SuperAdminDeactivatedByUpdateUser ==
    /\ res.op = "updateUser" /\ res.code = 200 /\ res.target = "sa"
    /\ users["sa"].exists /\ users["sa"].role = "super_admin"
    /\ ~users["sa"].isActive

\* C29: forgotPassword called with an e-mail answers 200 with the message
\* 'If a user with that email exists, a password reset link has been sent',
\* whether or not an Account has that e-mail.
C29_ForgotPasswordAnswersAlike ==
    [][(res'.op = "forgotPassword" /\ res'.target # Null)
       => /\ res'.code = 200
          /\ res'.msg =
               "If a user with that email exists, a password reset link has been sent"]_vars

\* a reset link was asked for the e-mail of a stored Account and the
\* answer says that the mail was sent
C29_RegisteredEmailAnsweredDifferently ==
    /\ res.op = "forgotPassword" /\ res.code = 200
    /\ res.msg = "Password reset email sent"
    /\ UserByEmail(res.target) # {}
    /\ \A u \in UserByEmail(res.target) : users[u].passwordResetToken \in ResetTokens

\* C30: a createHospital call that answers with an error leaves the stored
\* Hospitals and Accounts as they were.
C30_CreateHospitalAllOrNothing ==
    [][(res'.op = "createHospital" /\ res'.code # 201)
       => hospitals' = hospitals /\ users' = users]_vars

\* createHospital has failed at the admin Account, whose e-mail was taken,
\* and the Hospital is stored without an admin
C30_HospitalLeftWithoutAdmin ==
    /\ res.op = "createHospital" /\ res.code = 500 /\ res.target = "h1"
    /\ hospitals["h1"].exists /\ hospitals["h1"].status = "pending"
    /\ associatedUsers("h1") = {}
    /\ UserByEmail(HospitalEmail("h1")) # {}

====
